---- MODULE Spec2Model ----
(***************************************************************************)
(* Verification model of the weather aggregation core of jupiter:          *)
(* ComboProvider (src/src/provider/combo_enhanced.rs), its WeatherCache    *)
(* and the combination algorithms.                                         *)
(*                                                                         *)
(* Conventions                                                             *)
(*  - An f64 is a record [k, n, d]: k = "fin" is the finite value n/d in   *)
(*    lowest terms (the f64 nearest to it), k = "nan" / "inf" / "ninf" are *)
(*    the IEEE specials.  An Option<f64> is the same record with           *)
(*    k = "none" for None.  A serde_json number slot uses k = "null" for   *)
(*    Value::Null.                                                         *)
(*  - A Rust String whose content matters for equality is a sequence of    *)
(*    one-character strings, so that format!() is concatenation.           *)
(*  - SystemTime::now().as_secs() is the variable now (whole seconds).     *)
(***************************************************************************)
EXTENDS Integers, Sequences, FiniteSets, TLC

VARIABLES
    providers,            \* ComboProvider.providers : Vec<Box<dyn WeatherProvider>>
    weights,              \* ComboProvider.weights   : HashMap<String, f64>
    cache_duration_secs,  \* ComboProvider.cache_duration_secs
    fallback_enabled,     \* ComboProvider.fallback_enabled
    cache,                \* WeatherCache.data : key -> CacheEntry
    now,                  \* the wall clock, in whole seconds
    call,                 \* the callers' async calls into the ComboProvider
    limiter,              \* one RateLimiter (src/src/provider/common.rs)
    thread,               \* the threads inside a check_rate_limit call
    auth,                 \* one auth::RateLimiter (src/src/auth.rs)
    server,               \* one server Config (src/src/provider/combo.rs)
    upstream,             \* the HTTP requests one adapter has sent upstream
    request,              \* the requests inside validate_auth_header (src/src/auth.rs)
    db                    \* the global pools and one retry loop (src/src/db_pool.rs)

vars == <<providers, weights, cache_duration_secs, fallback_enabled, cache, now, call,
          limiter, thread, auth, server, upstream, request, db>>
config == <<providers, weights, cache_duration_secs, fallback_enabled>>
rate == <<limiter, thread, auth>>
edge == <<upstream, request, db>>

(***************************************************************************)
(* Bounds of the model                                                     *)
(***************************************************************************)
MaxProviders == 2      \* add_provider calls made on one ComboProvider
MaxTime == 3           \* the clock runs 0..MaxTime

(***************************************************************************)
(* f64 and Option<f64>                                                     *)
(***************************************************************************)
Abs(x) == IF x < 0 THEN -x ELSE x

RECURSIVE GCD(_, _)
GCD(a, b) == IF b = 0 THEN a ELSE GCD(b, a % b)

Fin(n, d) == [k |-> "fin", n |-> n, d |-> d]
F(n) == Fin(n, 1)
NaN == [k |-> "nan", n |-> 0, d |-> 1]
PosInf == [k |-> "inf", n |-> 0, d |-> 1]
NegInf == [k |-> "ninf", n |-> 0, d |-> 1]
None == [k |-> "none", n |-> 0, d |-> 1]
JNull == [k |-> "null", n |-> 0, d |-> 1]

IsSome(o) == o.k # "none"

IsFinite(x) == x.k = "fin"

\* the rational n/d, d # 0, in lowest terms with a positive denominator
Norm(n, d) ==
    LET g == GCD(Abs(n), Abs(d))
        sg == IF d < 0 THEN -1 ELSE 1
    IN Fin((sg * n) \div g, (sg * d) \div g)

\* f64 `a * b` and `a + b`; the operands the model feeds them are finite
FMul(a, b) == IF IsFinite(a) /\ IsFinite(b) THEN Norm(a.n * b.n, a.d * b.d) ELSE NaN
FAdd(a, b) == IF IsFinite(a) /\ IsFinite(b) THEN Norm(a.n * b.d + b.n * a.d, a.d * b.d) ELSE NaN

\* f64 `a / b` (IEEE 754: 0/0 is NaN, x/0 is an infinity)
FDiv(a, b) ==
    IF ~(IsFinite(a) /\ IsFinite(b)) THEN NaN
    ELSE IF b.n = 0
         THEN IF a.n = 0 THEN NaN ELSE IF a.n > 0 THEN PosInf ELSE NegInf
         ELSE Norm(a.n * b.d, a.d * b.n)

\* f64 `a > 0.0` (false for NaN)
FGtZero(a) == (a.k = "fin" /\ a.n > 0) \/ a.k = "inf"

RECURSIVE FSum(_)
FSum(s) == IF s = <<>> THEN F(0) ELSE FAdd(Head(s), FSum(Tail(s)))

(***************************************************************************)
(* Strings as character sequences                                          *)
(***************************************************************************)
RECURSIVE SeqsUpTo(_, _)
SeqsUpTo(S, n) ==
    IF n = 0 THEN {<<>>}
    ELSE LET shorter == SeqsUpTo(S, n - 1)
         IN shorter \cup {Append(s, x) : s \in {t \in shorter : Len(t) = n - 1}, x \in S}

RECURSIVE Flatten(_)
Flatten(ss) == IF ss = <<>> THEN <<>> ELSE Head(ss) \o Flatten(Tail(ss))

Range(s) == {s[i] : i \in DOMAIN s}

(***************************************************************************)
(* serde_json: to_value / from_value of the f64 slots                      *)
(***************************************************************************)
\* Value::from(f64): a finite number is Value::Number, NaN and infinities are Value::Null
ToValueF64(x) == IF x.k = "fin" THEN x ELSE JNull
\* Option<f64>: None is Value::Null, Some(x) is the value of x
ToValueOptF64(o) == IF o.k = "none" THEN JNull ELSE ToValueF64(o)
\* f64::deserialize accepts only Value::Number
FromValueF64Ok(j) == j.k = "fin"
\* Option<f64>::deserialize: Value::Null is None
FromValueOptF64(j) == IF j.k = "null" THEN None ELSE j

(***************************************************************************)
(* common.rs: the data model                                               *)
(***************************************************************************)
\* Option<String>: <<>> is None, <<s>> is Some(s)
NoString == <<>>

OptionalFields ==
    {"feels_like", "humidity", "pressure", "wind_speed", "wind_direction",
     "precipitation", "visibility", "uv_index"}

Location(name, lat, lon) ==
    [latitude |-> lat, longitude |-> lon, name |-> name,
     country |-> NoString, region |-> NoString, postal_code |-> NoString]

UnknownLocation == Location(<<"Unknown">>, F(0), F(0))

WeatherErrorKinds ==
    {"NetworkError", "ParseError", "NotFound", "RateLimitExceeded",
     "InvalidApiKey", "ConfigurationError", "DatabaseError"}

WeatherError(kind, msg) == [kind |-> kind, msg |-> msg]

Ok(v) == [ok |-> TRUE, val |-> v]
Err(e) == [ok |-> FALSE, val |-> e]

WeatherFeatures ==
    {"CurrentWeather", "Forecast", "Alerts", "HistoricalData", "HourlyForecast",
     "UvIndex", "AirQuality"}

(***************************************************************************)
(* serde_json: Weather <-> Value                                           *)
(***************************************************************************)
ToValueLocation(l) ==
    [l EXCEPT !.latitude = ToValueF64(l.latitude), !.longitude = ToValueF64(l.longitude)]

\* serde_json::to_value(&weather): never fails for a Weather
ToValueWeather(w) ==
    [temperature |-> ToValueF64(w.temperature),
     feels_like |-> ToValueOptF64(w.feels_like),
     humidity |-> ToValueOptF64(w.humidity),
     pressure |-> ToValueOptF64(w.pressure),
     wind_speed |-> ToValueOptF64(w.wind_speed),
     wind_direction |-> ToValueOptF64(w.wind_direction),
     description |-> w.description,
     icon |-> w.icon,
     precipitation |-> ToValueOptF64(w.precipitation),
     visibility |-> ToValueOptF64(w.visibility),
     uv_index |-> ToValueOptF64(w.uv_index),
     provider |-> w.provider,
     location |-> ToValueLocation(w.location),
     timestamp |-> w.timestamp]

\* serde_json::from_value::<Weather>(value): Err when a required f64 slot is not a number
FromValueWeather(j) ==
    IF FromValueF64Ok(j.temperature) /\ FromValueF64Ok(j.location.latitude)
       /\ FromValueF64Ok(j.location.longitude)
    THEN Ok([temperature |-> j.temperature,
             feels_like |-> FromValueOptF64(j.feels_like),
             humidity |-> FromValueOptF64(j.humidity),
             pressure |-> FromValueOptF64(j.pressure),
             wind_speed |-> FromValueOptF64(j.wind_speed),
             wind_direction |-> FromValueOptF64(j.wind_direction),
             description |-> j.description,
             icon |-> j.icon,
             precipitation |-> FromValueOptF64(j.precipitation),
             visibility |-> FromValueOptF64(j.visibility),
             uv_index |-> FromValueOptF64(j.uv_index),
             provider |-> j.provider,
             location |-> j.location,
             timestamp |-> j.timestamp])
    ELSE Err(WeatherError("ParseError", "invalid type: null, expected f64"))

(***************************************************************************)
(* WeatherCache                                                            *)
(***************************************************************************)
CacheEntry(value, timestamp) == [value |-> value, timestamp |-> timestamp]

\* WeatherCache::new
WeatherCacheNew == <<>>

\* faulty variant: an entry of age ttl still hits
WeatherCacheGetInclusive(data, key, ttl_secs, t) ==
    IF key \in DOMAIN data
    THEN IF t - data[key].timestamp <= ttl_secs THEN <<data[key].value>> ELSE <<>>
    ELSE <<>>

\* WeatherCache::get at clock reading t: Option<Value> as <<>> or <<value>>
WeatherCacheGet(data, key, ttl_secs, t) ==
    IF key \in DOMAIN data
    THEN IF t - data[key].timestamp < ttl_secs THEN <<data[key].value>> ELSE <<>>
    ELSE <<>>

\* faulty variant: the insert drops the entries of the other keys
WeatherCacheSetEvicts(data, key, value, t) ==
    [k \in {key} |-> CacheEntry(value, t)]

\* WeatherCache::set at clock reading t
WeatherCacheSet(data, key, value, t) ==
    [k \in (DOMAIN data) \cup {key} |-> IF k = key THEN CacheEntry(value, t) ELSE data[k]]

(***************************************************************************)
(* ComboProvider: the weighted average of current weather                  *)
(***************************************************************************)
\* faulty variant: every iteration of the loop overwrites the location
FirstLocationLast(results) ==
    IF results = <<>> THEN UnknownLocation ELSE results[Len(results)][2].location

\* `if location.is_none() { location = Some(...) }` in the loop, then
\* location.unwrap_or_else(|| Location { name: "Unknown", .. })
FirstLocation(results) ==
    IF results = <<>> THEN UnknownLocation ELSE results[1][2].location

\* faulty variant: the weight map is not consulted
WeightOfIgnored(wts, name) == F(1)

\* faulty variant: a name without an entry weighs nothing
WeightOfMissingZero(wts, name) == IF name \in DOMAIN wts THEN wts[name] ELSE F(0)

\* self.weights.get(name).unwrap_or(&1.0)
WeightOf(wts, name) == IF name \in DOMAIN wts THEN wts[name] ELSE F(1)

\* faulty variant: the weights of all configured providers
TotalWeightConfigured(wts, results) ==
    FSum([i \in 1..Len(providers) |-> WeightOf(wts, providers[i].name)])

\* total_weight: the weights of all entries of the result list
TotalWeight(wts, results) ==
    FSum([i \in 1..Len(results) |-> WeightOf(wts, results[i][1])])

\* avg_temp: += weather.temperature * weight for every entry
TemperatureSum(wts, results) ==
    FSum([i \in 1..Len(results) |-> FMul(results[i][2].temperature, WeightOf(wts, results[i][1]))])

\* avg_<field>: += val * weight for the entries whose field is Some(val)
FieldSum(wts, results, field) ==
    FSum([i \in 1..Len(results) |->
            IF IsSome(results[i][2][field])
            THEN FMul(results[i][2][field], WeightOf(wts, results[i][1]))
            ELSE F(0)])

\* <field>_count: += weight for the entries whose field is Some
FieldCount(wts, results, field) ==
    FSum([i \in 1..Len(results) |->
            IF IsSome(results[i][2][field]) THEN WeightOf(wts, results[i][1]) ELSE F(0)])

\* if <field>_count > 0.0 { Some(avg_<field> / <field>_count) } else { None }
FieldAverage(wts, results, field) ==
    IF FGtZero(FieldCount(wts, results, field))
    THEN FDiv(FieldSum(wts, results, field), FieldCount(wts, results, field))
    ELSE None

\* descriptions.push(format!("{}: {}", name, weather.description)), joined by " | "
RECURSIVE JoinDescriptions(_)
JoinDescriptions(results) ==
    IF results = <<>> THEN <<>>
    ELSE <<results[1][1], ": ">> \o results[1][2].description
         \o (IF Len(results) > 1 THEN <<" | ">> ELSE <<>>)
         \o JoinDescriptions(Tail(results))

\* ComboProvider::average_weather, the clock reading t giving the timestamp
AverageWeather(wts, results, t) ==
    IF results = <<>>
    THEN Err(WeatherError("NotFound", "No weather data available from any provider"))
    ELSE Ok([temperature |-> FDiv(TemperatureSum(wts, results), TotalWeight(wts, results)),
             feels_like |-> FieldAverage(wts, results, "feels_like"),
             humidity |-> FieldAverage(wts, results, "humidity"),
             pressure |-> FieldAverage(wts, results, "pressure"),
             wind_speed |-> FieldAverage(wts, results, "wind_speed"),
             wind_direction |-> FieldAverage(wts, results, "wind_direction"),
             description |-> <<"Combined: ">> \o JoinDescriptions(results),
             icon |-> NoString,
             precipitation |-> FieldAverage(wts, results, "precipitation"),
             visibility |-> FieldAverage(wts, results, "visibility"),
             uv_index |-> FieldAverage(wts, results, "uv_index"),
             provider |-> "Combo",
             location |-> FirstLocation(results),
             timestamp |-> t])

(***************************************************************************)
(* ComboProvider: merging forecasts                                        *)
(***************************************************************************)
\* str::cmp: byte-wise lexicographic order; a character is its code
RECURSIVE StrLess(_, _)
StrLess(a, b) ==
    IF b = <<>> THEN FALSE
    ELSE IF a = <<>> THEN TRUE
    ELSE IF Head(a) < Head(b) THEN TRUE
    ELSE IF Head(a) > Head(b) THEN FALSE
    ELSE StrLess(Tail(a), Tail(b))

\* the keys of a bucket map, sorted ascending (sort_by(|a, b| a.date.cmp(&b.date)))
RECURSIVE SortedKeys(_)
SortedKeys(S) ==
    IF S = {} THEN <<>>
    ELSE LET m == CHOOSE x \in S : \A y \in S \ {x} : StrLess(x, y)
         IN <<m>> \o SortedKeys(S \ {m})

\* faulty variant: only the first provider's daily list is taken
DailyEntriesOfFirst(results) ==
    IF results = <<>> THEN <<>>
    ELSE [i \in 1..Len(results[1][2].daily) |-> <<results[1][1], results[1][2].daily[i]>>]

\* Vec<(provider_name, entry)> of all entries of the result list, in push order
RECURSIVE DailyEntries(_)
DailyEntries(results) ==
    IF results = <<>> THEN <<>>
    ELSE [i \in 1..Len(results[1][2].daily) |-> <<results[1][1], results[1][2].daily[i]>>]
         \o DailyEntries(Tail(results))

RECURSIVE HourlyEntries(_)
HourlyEntries(results) ==
    IF results = <<>> THEN <<>>
    ELSE (IF results[1][2].hourly = <<>> THEN <<>>
          ELSE [i \in 1..Len(results[1][2].hourly[1]) |->
                   <<results[1][1], results[1][2].hourly[1][i]>>])
         \o HourlyEntries(Tail(results))

RECURSIVE SelectSeq2(_, _, _)
SelectSeq2(s, field, key) ==
    IF s = <<>> THEN <<>>
    ELSE (IF Head(s)[2][field] = key THEN <<Head(s)>> ELSE <<>>)
         \o SelectSeq2(Tail(s), field, key)

\* daily_map[date] / hourly_map[datetime]: the bucket of one key
Bucket(entries, field, key) == SelectSeq2(entries, field, key)

\* the first non-None sunrise / sunset of a bucket
RECURSIVE FirstSome(_, _)
FirstSome(bucket, field) ==
    IF bucket = <<>> THEN NoString
    ELSE IF Head(bucket)[2][field] # NoString THEN Head(bucket)[2][field]
    ELSE FirstSome(Tail(bucket), field)

\* the combined DailyForecast of one date bucket
CombineDaily(wts, date, bucket) ==
    [date |-> date,
     temperature_min |->
        FDiv(FSum([i \in 1..Len(bucket) |->
                     FMul(bucket[i][2].temperature_min, WeightOf(wts, bucket[i][1]))]),
             TotalWeight(wts, bucket)),
     temperature_max |->
        FDiv(FSum([i \in 1..Len(bucket) |->
                     FMul(bucket[i][2].temperature_max, WeightOf(wts, bucket[i][1]))]),
             TotalWeight(wts, bucket)),
     humidity |-> FieldAverage(wts, bucket, "humidity"),
     precipitation_probability |-> FieldAverage(wts, bucket, "precipitation_probability"),
     precipitation_amount |-> FieldAverage(wts, bucket, "precipitation_amount"),
     wind_speed |-> FieldAverage(wts, bucket, "wind_speed"),
     wind_direction |-> FieldAverage(wts, bucket, "wind_direction"),
     description |-> <<"Combined forecast">>,
     icon |-> NoString,
     sunrise |-> FirstSome(bucket, "sunrise"),
     sunset |-> FirstSome(bucket, "sunset")]

\* faulty variant: the bucket's first entry is passed on as it came
CombineHourlyFirst(wts, datetime, bucket) == bucket[1][2]

\* the combined HourlyForecast of one datetime bucket: only the temperature is combined
CombineHourly(wts, datetime, bucket) ==
    [datetime |-> datetime,
     temperature |->
        FDiv(FSum([i \in 1..Len(bucket) |->
                     FMul(bucket[i][2].temperature, WeightOf(wts, bucket[i][1]))]),
             TotalWeight(wts, bucket)),
     feels_like |-> None,
     humidity |-> None,
     precipitation_probability |-> None,
     precipitation_amount |-> None,
     wind_speed |-> None,
     wind_direction |-> None,
     description |-> <<"Combined">>,
     icon |-> NoString]

\* combine_forecasts after its is_empty check: bucket, combine, sort
CombinedForecast(wts, results) ==
    LET daily == DailyEntries(results)
        hourly == HourlyEntries(results)
        dates == SortedKeys({daily[i][2].date : i \in 1..Len(daily)})
        datetimes == SortedKeys({hourly[i][2].datetime : i \in 1..Len(hourly)})
    IN [location |-> FirstLocation(results),
        provider |-> "Combo",
        daily |-> [i \in 1..Len(dates) |->
                     CombineDaily(wts, dates[i], Bucket(daily, "date", dates[i]))],
        hourly |->
            IF Len(hourly) > 0
            THEN <<[i \in 1..Len(datetimes) |->
                      CombineHourly(wts, datetimes[i],
                                    Bucket(hourly, "datetime", datetimes[i]))]>>
            ELSE <<>>]

\* faulty variant: the is_empty check is missing
CombineForecastsNoEmptyCheck(wts, results) == Ok(CombinedForecast(wts, results))

\* ComboProvider::combine_forecasts
CombineForecasts(wts, results) ==
    IF results = <<>>
    THEN Err(WeatherError("NotFound", "No forecast data available from any provider"))
    ELSE Ok(CombinedForecast(wts, results))

(***************************************************************************)
(* ComboProvider: merging alerts                                           *)
(***************************************************************************)
\* AlertSeverity, #[derive(PartialOrd, Ord)]: the variants in declaration order
AlertSeverity == <<"Minor", "Moderate", "Severe", "Extreme">>
SeverityRank(sev) == CHOOSE i \in 1..Len(AlertSeverity) : AlertSeverity[i] = sev

\* format!("{}-{}", alert.title, alert.start)
AlertKey(alert) == alert.title \o <<"-">> \o alert.start

\* format!("[{}] {}", provider, alert.title)
PrefixedTitle(provider, title) == <<"[", provider, "]", " ">> \o title

\* the two nested loops of merge_alerts over one provider's alerts:
\* acc = [all |-> all_alerts, seen |-> seen_alerts]
RECURSIVE MergeOne(_, _, _)
MergeOne(acc, provider, alerts) ==
    IF alerts = <<>> THEN acc
    ELSE LET alert == Head(alerts)
             alert_key == AlertKey(alert)
         IN IF alert_key \notin acc.seen
            THEN MergeOne([all |-> Append(acc.all,
                                          [alert EXCEPT !.title = PrefixedTitle(provider, alert.title)]),
                           seen |-> acc.seen \cup {alert_key}],
                          provider, Tail(alerts))
            ELSE MergeOne(acc, provider, Tail(alerts))

\* faulty variant: seen_alerts is emptied before each provider's list
RECURSIVE MergeAllSeenPerProvider(_, _)
MergeAllSeenPerProvider(acc, alerts_list) ==
    IF alerts_list = <<>> THEN acc
    ELSE MergeAllSeenPerProvider(MergeOne([all |-> acc.all, seen |-> {}],
                                          alerts_list[1][1], alerts_list[1][2]),
                                 Tail(alerts_list))

\* the outer loop of merge_alerts over the providers' lists
RECURSIVE MergeAll(_, _)
MergeAll(acc, alerts_list) ==
    IF alerts_list = <<>> THEN acc
    ELSE MergeAll(MergeOne(acc, alerts_list[1][1], alerts_list[1][2]), Tail(alerts_list))

\* all_alerts.sort_by(|a, b| b.severity.cmp(&a.severity)): a stable sort, descending
RECURSIVE InsertBySeverity(_, _)
InsertBySeverity(sorted, alert) ==
    IF sorted = <<>> THEN <<alert>>
    ELSE IF SeverityRank(Head(sorted).severity) >= SeverityRank(alert.severity)
         THEN <<Head(sorted)>> \o InsertBySeverity(Tail(sorted), alert)
         ELSE <<alert>> \o sorted

\* faulty variant: the list is left in the order of insertion
SortBySeverityDescSkipped(alerts) == alerts

RECURSIVE SortBySeverityDesc(_)
SortBySeverityDesc(alerts) ==
    IF alerts = <<>> THEN <<>>
    ELSE InsertBySeverity(SortBySeverityDesc(SubSeq(alerts, 1, Len(alerts) - 1)),
                          alerts[Len(alerts)])

\* ComboProvider::merge_alerts
MergeAlerts(alerts_list) ==
    SortBySeverityDesc(MergeAll([all |-> <<>>, seen |-> {}], alerts_list).all)

(***************************************************************************)
(* serde_json: Forecast and Vec<Alert> <-> Value                           *)
(***************************************************************************)
ToValueDaily(d) ==
    [d EXCEPT !.temperature_min = ToValueF64(@), !.temperature_max = ToValueF64(@),
              !.humidity = ToValueOptF64(@),
              !.precipitation_probability = ToValueOptF64(@),
              !.precipitation_amount = ToValueOptF64(@),
              !.wind_speed = ToValueOptF64(@), !.wind_direction = ToValueOptF64(@)]

FromValueDaily(j) ==
    [j EXCEPT !.humidity = FromValueOptF64(@),
              !.precipitation_probability = FromValueOptF64(@),
              !.precipitation_amount = FromValueOptF64(@),
              !.wind_speed = FromValueOptF64(@), !.wind_direction = FromValueOptF64(@)]

ToValueHourly(h) ==
    [h EXCEPT !.temperature = ToValueF64(@), !.feels_like = ToValueOptF64(@),
              !.humidity = ToValueOptF64(@),
              !.precipitation_probability = ToValueOptF64(@),
              !.precipitation_amount = ToValueOptF64(@),
              !.wind_speed = ToValueOptF64(@), !.wind_direction = ToValueOptF64(@)]

FromValueHourly(j) ==
    [j EXCEPT !.feels_like = FromValueOptF64(@), !.humidity = FromValueOptF64(@),
              !.precipitation_probability = FromValueOptF64(@),
              !.precipitation_amount = FromValueOptF64(@),
              !.wind_speed = FromValueOptF64(@), !.wind_direction = FromValueOptF64(@)]

\* serde_json::to_value(&forecast)
ToValueForecast(f) ==
    [location |-> ToValueLocation(f.location),
     provider |-> f.provider,
     daily |-> [i \in 1..Len(f.daily) |-> ToValueDaily(f.daily[i])],
     hourly |-> IF f.hourly = <<>> THEN <<>>
                ELSE <<[i \in 1..Len(f.hourly[1]) |-> ToValueHourly(f.hourly[1][i])]>>]

\* serde_json::from_value::<Forecast>(value)
FromValueForecast(j) ==
    IF /\ FromValueF64Ok(j.location.latitude) /\ FromValueF64Ok(j.location.longitude)
       /\ \A i \in 1..Len(j.daily) :
             FromValueF64Ok(j.daily[i].temperature_min)
             /\ FromValueF64Ok(j.daily[i].temperature_max)
       /\ (j.hourly # <<>> =>
             \A i \in 1..Len(j.hourly[1]) : FromValueF64Ok(j.hourly[1][i].temperature))
    THEN Ok([location |-> j.location,
             provider |-> j.provider,
             daily |-> [i \in 1..Len(j.daily) |-> FromValueDaily(j.daily[i])],
             hourly |-> IF j.hourly = <<>> THEN <<>>
                        ELSE <<[i \in 1..Len(j.hourly[1]) |-> FromValueHourly(j.hourly[1][i])]>>])
    ELSE Err(WeatherError("ParseError", "invalid type: null, expected f64"))

\* serde_json::to_value(&alerts): strings, the variant name and string lists, kept as they are
ToValueAlerts(alerts) ==
    [i \in 1..Len(alerts) |->
        [title |-> alerts[i].title, description |-> alerts[i].description,
         severity |-> alerts[i].severity, start |-> alerts[i].start,
         end |-> alerts[i].end, regions |-> alerts[i].regions]]

\* serde_json::from_value::<Vec<Alert>>(value)
FromValueAlerts(j) ==
    IF \A i \in 1..Len(j) : j[i].severity \in Range(AlertSeverity)
    THEN Ok([i \in 1..Len(j) |->
                [title |-> j[i].title, description |-> j[i].description,
                 severity |-> j[i].severity, start |-> j[i].start,
                 end |-> j[i].end, regions |-> j[i].regions]])
    ELSE Err(WeatherError("ParseError", "unknown variant"))

(***************************************************************************)
(* The adapters (external collaborators) and the builder                   *)
(***************************************************************************)
\* name() and supports_feature() of the three adapters of the repository
AccuWeather ==
    [name |-> "AccuWeather",
     supports |-> WeatherFeatures \ {"HistoricalData"}]
Homebrew ==
    [name |-> "Homebrew",
     supports |-> {"CurrentWeather", "Alerts", "HistoricalData", "AirQuality"}]
OpenWeather ==
    [name |-> "OpenWeather", supports |-> WeatherFeatures]

AdapterKinds == {AccuWeather, Homebrew, OpenWeather}

\* ComboProvider::new
ComboNew ==
    [providers |-> <<>>, weights |-> <<>>, cache_duration_secs |-> 300,
     fallback_enabled |-> TRUE]

\* faulty variant: a name that has a weight keeps it
AddProviderKeepsWeight(self, provider, weight) ==
    [self EXCEPT
        !.providers = Append(@, provider),
        !.weights = [n \in (DOMAIN @) \cup {provider.name} |->
                        IF n \in DOMAIN @ THEN @[n] ELSE weight]]

\* ComboProvider::add_provider
AddProvider(self, provider, weight) ==
    [self EXCEPT
        !.providers = Append(@, provider),
        !.weights = [n \in (DOMAIN @) \cup {provider.name} |->
                        IF n = provider.name THEN weight ELSE @[n]]]

\* ComboProvider::set_cache_duration
SetCacheDuration(self, seconds) == [self EXCEPT !.cache_duration_secs = seconds]

\* ComboProvider::set_fallback_enabled
SetFallbackEnabled(self, enabled) == [self EXCEPT !.fallback_enabled = enabled]

\* a chain of add_provider calls, adds = <<<<provider, weight>>, ...>>
RECURSIVE AddAll(_, _)
AddAll(self, adds) ==
    IF adds = <<>> THEN self
    ELSE AddAll(AddProvider(self, adds[1][1], adds[1][2]), Tail(adds))

\* ComboProvider::new().add_provider(..)...set_cache_duration(..).set_fallback_enabled(..)
Build(adds, seconds, enabled) ==
    SetFallbackEnabled(SetCacheDuration(AddAll(ComboNew, adds), seconds), enabled)

(***************************************************************************)
(* What the adapters answer                                                *)
(***************************************************************************)
FieldOffset(field) ==
    CASE field = "feels_like" -> 1 [] field = "humidity" -> 30
      [] field = "pressure" -> 1000 [] field = "wind_speed" -> 2
      [] field = "wind_direction" -> 90 [] field = "precipitation" -> 3
      [] field = "visibility" -> 4 [] field = "uv_index" -> 5

OptValue(field, temp, reported) ==
    IF field \in reported THEN F(temp + FieldOffset(field)) ELSE None

\* the Weather adapter number i answers: temperature temp, the optional fields of `reported`
AdapterWeather(i, name, temp, reported) ==
    [temperature |-> F(temp),
     feels_like |-> OptValue("feels_like", temp, reported),
     humidity |-> OptValue("humidity", temp, reported),
     pressure |-> OptValue("pressure", temp, reported),
     wind_speed |-> OptValue("wind_speed", temp, reported),
     wind_direction |-> OptValue("wind_direction", temp, reported),
     description |-> <<"clear sky">>,
     icon |-> <<"01d">>,
     precipitation |-> OptValue("precipitation", temp, reported),
     visibility |-> OptValue("visibility", temp, reported),
     uv_index |-> OptValue("uv_index", temp, reported),
     provider |-> name,
     location |-> Location(<<name>>, F(i), F(0)),
     timestamp |-> 0]

AdapterDaily(date, temp, reported) ==
    [date |-> date,
     temperature_min |-> F(temp), temperature_max |-> F(temp + 10),
     humidity |-> OptValue("humidity", temp, reported),
     precipitation_probability |-> OptValue("precipitation", temp, reported),
     precipitation_amount |-> OptValue("precipitation", temp, reported),
     wind_speed |-> OptValue("wind_speed", temp, reported),
     wind_direction |-> OptValue("wind_direction", temp, reported),
     description |-> <<"clear sky">>,
     icon |-> <<"01d">>,
     sunrise |-> IF "uv_index" \in reported THEN <<"06:00">> ELSE NoString,
     sunset |-> IF "uv_index" \in reported THEN <<"18:00">> ELSE NoString]

AdapterHourly(datetime, temp, reported) ==
    [datetime |-> datetime,
     temperature |-> F(temp),
     feels_like |-> OptValue("feels_like", temp, reported),
     humidity |-> OptValue("humidity", temp, reported),
     precipitation_probability |-> OptValue("precipitation", temp, reported),
     precipitation_amount |-> OptValue("precipitation", temp, reported),
     wind_speed |-> OptValue("wind_speed", temp, reported),
     wind_direction |-> OptValue("wind_direction", temp, reported),
     description |-> <<"clear sky">>,
     icon |-> <<"01d">>]

AdapterForecast(i, name, daily, hourly) ==
    [location |-> Location(<<name>>, F(i), F(0)), provider |-> name,
     daily |-> daily, hourly |-> hourly]

AdapterAlert(title, start, severity) ==
    [title |-> title, description |-> <<"take care">>, severity |-> severity,
     start |-> start, end |-> NoString, regions |-> <<"Region1">>]

AdapterHistorical(i, name, date, temp) ==
    [location |-> Location(<<name>>, F(i), F(0)), provider |-> name, date |-> date,
     temperature_min |-> F(temp - 5), temperature_max |-> F(temp + 5),
     temperature_avg |-> F(temp),
     humidity_avg |-> None, precipitation_total |-> None, wind_speed_avg |-> None]

\* the WeatherError an adapter returns
AdapterError(kind) == WeatherError(kind, "upstream")

(***************************************************************************)
(* ComboProvider: the four operations                                      *)
(***************************************************************************)
Digits == <<"0", "1", "2", "3", "4", "5", "6", "7", "8", "9">>

\* Display of a u8
RECURSIVE Decimal(_)
Decimal(n) == IF n < 10 THEN <<Digits[n + 1]>> ELSE Decimal(n \div 10) \o <<Digits[(n % 10) + 1]>>

\* faulty variant: the forecast key leaves the days out
CacheKeyWithoutDays(op, location, arg) ==
    CASE op = "get_current_weather" ->
            <<"c", "u", "r", "r", "e", "n", "t", ":">> \o location
      [] op = "get_forecast" ->
            <<"f", "o", "r", "e", "c", "a", "s", "t", ":">> \o location
      [] op = "get_alerts" ->
            <<"a", "l", "e", "r", "t", "s", ":">> \o location
      [] OTHER -> <<>>

\* format!("current:{}", location), format!("forecast:{}:{}", location, days),
\* format!("alerts:{}", location)
CacheKey(op, location, arg) ==
    CASE op = "get_current_weather" ->
            <<"c", "u", "r", "r", "e", "n", "t", ":">> \o location
      [] op = "get_forecast" ->
            <<"f", "o", "r", "e", "c", "a", "s", "t", ":">> \o location \o <<":">> \o Decimal(arg[1])
      [] op = "get_alerts" ->
            <<"a", "l", "e", "r", "t", "s", ":">> \o location
      [] OTHER -> <<>>

\* faulty variant: get_alerts bypasses the cache as get_historical does
CachedWithoutAlerts(op) == op \in {"get_current_weather", "get_forecast"}

\* get_historical neither reads nor writes the cache
Cached(op) == op # "get_historical"

\* faulty variant: the fan-out loops call every adapter
GatedAlways(op, provider) == TRUE

\* the supports_feature gate of the fan-out loops; get_current_weather has none
Gated(op, provider) ==
    CASE op = "get_current_weather" -> TRUE
      [] op = "get_forecast" -> "Forecast" \in provider.supports
      [] op = "get_alerts" -> "Alerts" \in provider.supports
      [] op = "get_historical" -> "HistoricalData" \in provider.supports

\* ComboProvider::name
Name == "Combo"

\* faulty variant: every configured adapter must support the feature
SupportsFeatureAll(feature) ==
    \A i \in 1..Len(providers) : feature \in providers[i].supports

\* ComboProvider::supports_feature: self.providers.iter().any(|p| p.supports_feature(feature))
SupportsFeature(feature) ==
    \E i \in 1..Len(providers) : feature \in providers[i].supports

\* the next provider the `for provider in &self.providers` loop calls from index `from` on,
\* 0 when the loop is over
NextProvider(op, from) ==
    LET S == {i \in from..Len(providers) : Gated(op, providers[i])}
    IN IF S = {} THEN 0 ELSE CHOOSE i \in S : \A j \in S : i <= j

\* faulty variant: the break is missing
BreaksAfterSuccessNever(op) == FALSE

\* faulty variant: get_alerts breaks as the other operations do
BreaksAfterSuccessInAlerts(op) == ~fallback_enabled

\* `if !self.fallback_enabled { break; }` after a success; get_alerts has no break
BreaksAfterSuccess(op) == op # "get_alerts" /\ ~fallback_enabled

\* faulty variant: get_historical returns the last result, not the first
CombineHistoricalLast(op, results, t) ==
    CASE op = "get_current_weather" -> AverageWeather(weights, results, t)
      [] op = "get_forecast" -> CombineForecasts(weights, results)
      [] op = "get_alerts" -> Ok(MergeAlerts(results))
      [] op = "get_historical" ->
            IF results = <<>>
            THEN Err(WeatherError("NotFound", "No historical data available"))
            ELSE Ok(results[Len(results)][2])

\* what the operation makes of the collected results at clock reading t
Combine(op, results, t) ==
    CASE op = "get_current_weather" -> AverageWeather(weights, results, t)
      [] op = "get_forecast" -> CombineForecasts(weights, results)
      [] op = "get_alerts" -> Ok(MergeAlerts(results))
      [] op = "get_historical" ->
            IF results = <<>>
            THEN Err(WeatherError("NotFound", "No historical data available"))
            ELSE Ok(results[1][2])

ToValue(op, v) ==
    CASE op = "get_current_weather" -> ToValueWeather(v)
      [] op = "get_forecast" -> ToValueForecast(v)
      [] op = "get_alerts" -> ToValueAlerts(v)

FromValue(op, j) ==
    CASE op = "get_current_weather" -> FromValueWeather(j)
      [] op = "get_forecast" -> FromValueForecast(j)
      [] op = "get_alerts" -> FromValueAlerts(j)

\* self.get_from_cache(&cache_key) at the start of a cached operation
GetFromCache(op, key) ==
    IF Cached(op) THEN WeatherCacheGet(cache, key, cache_duration_secs, now) ELSE <<>>

Callers == {"c1", "c2"}

IdleCall ==
    [pc |-> "idle", op |-> "none", location |-> <<>>, arg |-> <<>>, cache_key |-> <<>>,
     results |-> <<>>, inflight |-> {}, invoked |-> <<>>, outcomes |-> <<>>,
     lookup |-> "none", ret |-> <<>>]

\* faulty variant: the store keeps an entry that is already there
FinishKeepsFirst(c, rec) ==
    LET r == Combine(rec.op, rec.results, now)
    IN /\ call' = [call EXCEPT ![c] = [rec EXCEPT !.pc = "done", !.inflight = {}, !.ret = <<r>>]]
       /\ cache' = IF r.ok /\ Cached(rec.op) /\ rec.cache_key \notin DOMAIN cache
                   THEN WeatherCacheSet(cache, rec.cache_key, ToValue(rec.op, r.val), now)
                   ELSE cache

\* faulty variant: an operation that fails drops the entry of its key
FinishEvictsOnError(c, rec) ==
    LET r == Combine(rec.op, rec.results, now)
    IN /\ call' = [call EXCEPT ![c] = [rec EXCEPT !.pc = "done", !.inflight = {}, !.ret = <<r>>]]
       /\ cache' = IF r.ok /\ Cached(rec.op)
                   THEN WeatherCacheSet(cache, rec.cache_key, ToValue(rec.op, r.val), now)
                   ELSE [k \in DOMAIN cache \ {rec.cache_key} |-> cache[k]]

\* the tail of an operation: combine, store_in_cache on success, return
Finish(c, rec) ==
    LET r == Combine(rec.op, rec.results, now)
    IN /\ call' = [call EXCEPT ![c] = [rec EXCEPT !.pc = "done", !.inflight = {}, !.ret = <<r>>]]
       /\ cache' = IF r.ok /\ Cached(rec.op)
                   THEN WeatherCacheSet(cache, rec.cache_key, ToValue(rec.op, r.val), now)
                   ELSE cache

\* faulty variant: the remaining adapters are all called at once
AdvanceConcurrent(c, rec, from) ==
    LET S == {i \in from..Len(providers) : Gated(rec.op, providers[i])}
        order == SortedKeys({<<i>> : i \in S})
    IN IF S = {}
       THEN Finish(c, rec)
       ELSE /\ call' = [call EXCEPT ![c] =
                          [rec EXCEPT !.pc = "await", !.inflight = S,
                                      !.invoked = @ \o [k \in 1..Len(order) |-> order[k][1]]]]
            /\ cache' = cache

\* the fan-out loop goes on from provider index `from`: it calls the next gated adapter
\* and suspends on it, or it is over
Advance(c, rec, from) ==
    LET i == NextProvider(rec.op, from)
    IN IF i = 0
       THEN Finish(c, rec)
       ELSE /\ call' = [call EXCEPT ![c] =
                          [rec EXCEPT !.pc = "await", !.inflight = {i},
                                      !.invoked = Append(@, i)]]
            /\ cache' = cache

\* the head of an operation: the cache lookup, a hit returns at once.
\* lookup records what get_from_cache and from_value gave: "hit", "absent" (no entry),
\* "stale" (an entry, but get returned None), "unparsable" (from_value failed),
\* "none" (get_historical: no lookup)
Begin(c, op, location, arg) ==
    LET key == CacheKey(op, location, arg)
        cached == GetFromCache(op, key)
        parsed == IF cached = <<>> THEN Err(WeatherError("none", "")) ELSE FromValue(op, cached[1])
        lookup == IF ~Cached(op) THEN "none"
                  ELSE IF key \notin DOMAIN cache THEN "absent"
                  ELSE IF cached = <<>> THEN "stale"
                  ELSE IF parsed.ok THEN "hit" ELSE "unparsable"
        rec == [IdleCall EXCEPT !.op = op, !.location = location, !.arg = arg,
                                !.cache_key = key, !.lookup = lookup]
    IN /\ c \in DOMAIN call
       /\ call[c].pc \in {"idle", "done"}
       /\ IF parsed.ok
          THEN /\ call' = [call EXCEPT ![c] = [rec EXCEPT !.pc = "done", !.ret = <<parsed>>]]
               /\ cache' = cache
          ELSE Advance(c, rec, 1)
       /\ UNCHANGED <<config, now, rate, server, edge>>

GetCurrentWeather(c, location) == Begin(c, "get_current_weather", location, <<>>)
GetForecast(c, location, days) == Begin(c, "get_forecast", location, <<days>>)
GetAlerts(c, location) == Begin(c, "get_alerts", location, <<>>)
GetHistorical(c, location, date) == Begin(c, "get_historical", location, date)

\* WeatherProvider::name of the ComboProvider, called by caller c
GetName(c) ==
    /\ c \in DOMAIN call
    /\ call[c].pc \in {"idle", "done"}
    /\ call' = [call EXCEPT ![c] = [IdleCall EXCEPT !.pc = "done", !.op = "name",
                                                    !.ret = <<Name>>]]
    /\ UNCHANGED <<config, cache, now, rate, server, edge>>

\* WeatherProvider::supports_feature of the ComboProvider, called by caller c
GetSupportsFeature(c, feature) ==
    /\ c \in DOMAIN call
    /\ call[c].pc \in {"idle", "done"}
    /\ call' = [call EXCEPT ![c] = [IdleCall EXCEPT !.pc = "done", !.op = "supports_feature",
                                                    !.arg = <<feature>>,
                                                    !.ret = <<SupportsFeature(feature)>>]]
    /\ UNCHANGED <<config, cache, now, rate, server, edge>>

\* the adapter call in flight returns Ok(data)
AdapterOk(c, data) ==
    /\ c \in DOMAIN call
    /\ call[c].pc = "await"
    /\ LET i == CHOOSE j \in call[c].inflight : TRUE
           rec == [call[c] EXCEPT !.results = Append(@, <<providers[i].name, data>>),
                                  !.outcomes = Append(@, "Ok"),
                                  !.inflight = {}]
       IN IF BreaksAfterSuccess(rec.op) THEN Finish(c, rec) ELSE Advance(c, rec, i + 1)
    /\ UNCHANGED <<config, now, rate, server, edge>>

\* faulty variant: the adapter's error is returned to the caller (a `?` on the adapter call)
AdapterErrPropagates(c, e) ==
    /\ c \in DOMAIN call
    /\ call[c].pc = "await"
    /\ call' = [call EXCEPT ![c] = [@ EXCEPT !.pc = "done", !.inflight = {},
                                             !.outcomes = Append(@, "Err"),
                                             !.ret = <<Err(e)>>]]
    /\ UNCHANGED <<config, now, cache, rate, server, edge>>

\* faulty variant: a failed adapter loses its weight
AdapterErrZeroesWeight(c, e) ==
    /\ c \in DOMAIN call
    /\ call[c].pc = "await"
    /\ LET i == CHOOSE j \in call[c].inflight : TRUE
           rec == [call[c] EXCEPT !.outcomes = Append(@, "Err"), !.inflight = {}]
       IN /\ Advance(c, rec, i + 1)
          /\ weights' = [weights EXCEPT ![providers[i].name] = F(0)]
    /\ UNCHANGED <<providers, cache_duration_secs, fallback_enabled, now, rate, server, edge>>

\* the adapter call in flight returns Err(e): logged, the loop goes on
AdapterErr(c, e) ==
    /\ c \in DOMAIN call
    /\ call[c].pc = "await"
    /\ LET i == CHOOSE j \in call[c].inflight : TRUE
           rec == [call[c] EXCEPT !.outcomes = Append(@, "Err"), !.inflight = {}]
       IN Advance(c, rec, i + 1)
    /\ UNCHANGED <<config, now, rate, server, edge>>

\* a second of wall-clock time passes
Tick ==
    /\ now < MaxTime
    /\ now' = now + 1
    /\ UNCHANGED <<config, cache, call, rate, server, edge>>

(***************************************************************************)
(* RateLimiter (src/src/provider/common.rs)                                *)
(*                                                                         *)
(* An Instant is the clock reading in whole seconds.  The Mutex is the     *)
(* field mutex: "unlocked" or the thread that holds the guard.  History    *)
(* the code never reads: limiter.admitted, the instants pushed, in the     *)
(* order pushed; thread[t].peers, the threads that were inside             *)
(* check_rate_limit when t entered it and have not entered it again;       *)
(* thread[t].free, the slots that were free when t entered.                *)
(***************************************************************************)
TestMaxRequests == 2     \* RateLimiter::new(2, 1) of test_rate_limiter
TestWindowSeconds == 1

RateLimiterNew(max_requests, window_seconds) ==
    [max_requests |-> max_requests,
     window_seconds |-> window_seconds,
     requests |-> <<>>,
     mutex |-> "unlocked",
     admitted |-> <<>>]

\* Instant::duration_since saturates to zero when earlier is later than self
DurationSince(self, earlier) == IF self >= earlier THEN self - earlier ELSE 0

\* faulty variant: an instant exactly window seconds old is kept
RetainInclusive(requests, instant, window) ==
    SelectSeq(requests, LAMBDA req_time : DurationSince(instant, req_time) <= window)

\* requests.retain(|&req_time| now.duration_since(req_time) < window)
Retain(requests, instant, window) ==
    SelectSeq(requests, LAMBDA req_time : DurationSince(instant, req_time) < window)

IdleThread == [pc |-> "idle", now |-> 0, ret |-> FALSE, peers |-> {}, free |-> 0]

\* thread t is inside check_rate_limit
Inside(t) == thread[t].pc \notin {"idle", "done"}

\* the slots an admission could take at the instant given: max_requests less
\* the recorded instants that are still inside the window
FreeSlots(instant) ==
    limiter.max_requests - Len(Retain(limiter.requests, instant, limiter.window_seconds))

\* thread t enters check_rate_limit: let now = Instant::now()
CheckRateLimit(t) ==
    /\ thread[t].pc \in {"idle", "done"}
    /\ thread' = [u \in DOMAIN thread |->
                    IF u = t
                    THEN [pc |-> "lock", now |-> now, ret |-> FALSE,
                          peers |-> {v \in DOMAIN thread \ {t} : Inside(v)},
                          free |-> FreeSlots(now)]
                    ELSE [thread[u] EXCEPT !.peers = @ \ {t}]]
    /\ UNCHANGED <<config, cache, call, now, limiter, auth, server, edge>>

\* self.requests.lock().unwrap(): blocks while another thread holds the guard
Lock(t) ==
    /\ thread[t].pc = "lock"
    /\ limiter.mutex = "unlocked"
    /\ limiter' = [limiter EXCEPT !.mutex = t]
    /\ thread' = [thread EXCEPT ![t].pc = "retain"]
    /\ UNCHANGED <<config, cache, call, now, auth, server, edge>>

\* the retain call, with the instant read before the lock was taken
Prune(t) ==
    /\ thread[t].pc = "retain"
    /\ limiter' = [limiter EXCEPT
                     !.requests = Retain(@, thread[t].now, limiter.window_seconds)]
    /\ thread' = [thread EXCEPT ![t].pc = "check"]
    /\ UNCHANGED <<config, cache, call, now, auth, server, edge>>

\* if requests.len() < self.max_requests as usize
Check(t) ==
    /\ thread[t].pc = "check"
    /\ thread' = [thread EXCEPT ![t].pc =
                    IF Len(limiter.requests) < limiter.max_requests
                    THEN "push" ELSE "reject"]
    /\ UNCHANGED <<config, cache, call, now, limiter, auth, server, edge>>

\* requests.push(now); true -- the guard is dropped on return
Push(t) ==
    /\ thread[t].pc = "push"
    /\ limiter' = [limiter EXCEPT !.requests = Append(@, thread[t].now),
                                  !.admitted = Append(@, thread[t].now),
                                  !.mutex = "unlocked"]
    /\ thread' = [thread EXCEPT ![t].pc = "done", ![t].ret = TRUE]
    /\ UNCHANGED <<config, cache, call, now, auth, server, edge>>

\* faulty variant: the instant is pushed on the false branch too
RejectRecords(t) ==
    /\ thread[t].pc = "reject"
    /\ limiter' = [limiter EXCEPT !.requests = Append(@, thread[t].now),
                                  !.mutex = "unlocked"]
    /\ thread' = [thread EXCEPT ![t].pc = "done", ![t].ret = FALSE]
    /\ UNCHANGED <<config, cache, call, now, auth, server, edge>>

\* else { false } -- the guard is dropped on return
Reject(t) ==
    /\ thread[t].pc = "reject"
    /\ limiter' = [limiter EXCEPT !.mutex = "unlocked"]
    /\ thread' = [thread EXCEPT ![t].pc = "done", ![t].ret = FALSE]
    /\ UNCHANGED <<config, cache, call, now, auth, server, edge>>

(***************************************************************************)
(* auth::RateLimiter (src/src/auth.rs): one window per client id.          *)
(*                                                                         *)
(* attempts is the HashMap: a function from the client ids seen so far to  *)
(* their instants.  History the code never reads: auth.admitted, per       *)
(* client id the instants pushed, in the order pushed.  The local now of a  *)
(* thread is 0 outside the call.                                           *)
(***************************************************************************)
AuthRateLimiterNew(max_attempts, window_seconds) ==
    [max_attempts |-> max_attempts,
     window |-> window_seconds,
     attempts |-> [c \in {} |-> <<>>],
     mutex |-> "unlocked",
     admitted |-> [c \in {} |-> <<>>]]

\* faulty variant: every client id is looked up under one and the same key
EntryOrInsertShared(attempts, client_id) ==
    IF DOMAIN attempts = {} THEN <<>>
    ELSE attempts[CHOOSE k \in DOMAIN attempts : TRUE]

\* attempts.entry(client_id.to_string()).or_insert_with(Vec::new)
EntryOrInsert(attempts, client_id) ==
    IF client_id \in DOMAIN attempts THEN attempts[client_id] ELSE <<>>

\* client_attempts.retain(|&attempt| now.duration_since(attempt) < self.window)
AuthRetain(client_attempts, instant, window) ==
    SelectSeq(client_attempts, LAMBDA attempt : DurationSince(instant, attempt) < window)

\* the map m with the entry of key k set to v (inserted when absent)
Insert(m, k, v) == [x \in DOMAIN m \cup {k} |-> IF x = k THEN v ELSE m[x]]

AuthIdleThread == [pc |-> "idle", client_id |-> "", now |-> 0, ret |-> FALSE]

\* thread t calls check_rate_limit(client_id) and waits for the lock
AuthCheckRateLimit(t, client_id) ==
    /\ thread[t].pc \in {"idle", "done"}
    /\ thread' = [thread EXCEPT ![t] = [pc |-> "lock", client_id |-> client_id,
                                        now |-> 0, ret |-> FALSE]]
    /\ UNCHANGED <<config, cache, call, now, limiter, auth, server, edge>>

\* self.attempts.lock().unwrap(); let now = Instant::now()
AuthLock(t) ==
    /\ thread[t].pc = "lock"
    /\ auth.mutex = "unlocked"
    /\ auth' = [auth EXCEPT !.mutex = t]
    /\ thread' = [thread EXCEPT ![t].pc = "locked", ![t].now = now]
    /\ UNCHANGED <<config, cache, call, now, limiter, server, edge>>

\* the instants pushed for the client so far
AdmittedOf(client_id) ==
    IF client_id \in DOMAIN auth.admitted THEN auth.admitted[client_id] ELSE <<>>

\* the list of the client after entry().or_insert_with() and retain()
Pruned(t) ==
    AuthRetain(EntryOrInsert(auth.attempts, thread[t].client_id),
               thread[t].now, auth.window)

\* retain; len() < max_attempts: push(now); true -- the guard is dropped
AuthAdmit(t) ==
    /\ thread[t].pc = "locked"
    /\ Len(Pruned(t)) < auth.max_attempts
    /\ auth' = [auth EXCEPT
                  !.attempts = Insert(@, thread[t].client_id,
                                      Append(Pruned(t), thread[t].now)),
                  !.admitted = Insert(@, thread[t].client_id,
                                      Append(AdmittedOf(thread[t].client_id),
                                             thread[t].now)),
                  !.mutex = "unlocked"]
    /\ thread' = [thread EXCEPT ![t].pc = "done", ![t].ret = TRUE, ![t].now = 0]
    /\ UNCHANGED <<config, cache, call, now, limiter, server, edge>>

\* retain; else { false } -- the guard is dropped
AuthReject(t) ==
    /\ thread[t].pc = "locked"
    /\ ~(Len(Pruned(t)) < auth.max_attempts)
    /\ auth' = [auth EXCEPT
                  !.attempts = Insert(@, thread[t].client_id, Pruned(t)),
                  !.mutex = "unlocked"]
    /\ thread' = [thread EXCEPT ![t].pc = "done", ![t].ret = FALSE, ![t].now = 0]
    /\ UNCHANGED <<config, cache, call, now, limiter, server, edge>>

(***************************************************************************)
(* The server Config of combo.rs (homebrew.rs has the same init and        *)
(* shutdown): the stored join handle, the shutdown flag, the server        *)
(* thread and the task that calls shutdown.                                *)
(*  server.handle   the Option inside server_handle: "None" or "Some"      *)
(*  server.thread   the server thread: "none", "starting" (before          *)
(*                  Server::new), "load" (at the loop condition), "poll"   *)
(*                  (in poll_timeout), "exited", "panicked"                *)
(*  server.pc       the task: "new", "failed" (init returned Err), "ready" *)
(*                  (init returned Ok), "signalled" (flag stored), "join"  *)
(*                  (awaiting the join under the timeout), "returned"      *)
(*  server.deadline the instant at which the timeout of the join expires   *)
(* History the code never reads: server.outcome, how the last shutdown     *)
(* call returned.                                                          *)
(***************************************************************************)
DefaultShutdownTimeout == 10   \* shutdown(): Duration::from_secs(10)
CustomShutdownTimeout == 2     \* test_shutdown_with_custom_timeout

\* Config::new
ConfigNew ==
    [handle |-> "None", shutdown_flag |-> FALSE, thread |-> "none",
     pc |-> "new", deadline |-> 0, outcome |-> "none"]

\* init: build_tables succeeds, the thread is spawned, the handle is stored
ConfigInit ==
    /\ server.pc = "new"
    /\ server' = [server EXCEPT !.thread = "starting", !.handle = "Some", !.pc = "ready"]
    /\ UNCHANGED <<config, cache, call, now, rate, edge>>

\* init: build_tables fails and `?` returns the error before the spawn
ConfigInitFails ==
    /\ server.pc = "new"
    /\ server' = [server EXCEPT !.pc = "failed"]
    /\ UNCHANGED <<config, cache, call, now, rate, edge>>

\* the server thread: Server::new(..) succeeded
ServerStart ==
    /\ server.thread = "starting"
    /\ server' = [server EXCEPT !.thread = "load"]
    /\ UNCHANGED <<config, cache, call, now, rate, edge>>

\* the server thread: Server::new(..).expect("Failed to create server") panics
ServerBindFails ==
    /\ server.thread = "starting"
    /\ server' = [server EXCEPT !.thread = "panicked"]
    /\ UNCHANGED <<config, cache, call, now, rate, edge>>

\* faulty variant: the loop condition never sees the flag
ServerLoadIgnoresFlag ==
    /\ server.thread = "load"
    /\ server' = [server EXCEPT !.thread = "poll"]
    /\ UNCHANGED <<config, cache, call, now, rate, edge>>

\* while !shutdown_flag.load(Ordering::Relaxed)
ServerLoad ==
    /\ server.thread = "load"
    /\ server' = [server EXCEPT !.thread = IF server.shutdown_flag THEN "exited" ELSE "poll"]
    /\ UNCHANGED <<config, cache, call, now, rate, edge>>

\* server.poll_timeout(100 ms) returns
ServerPoll ==
    /\ server.thread = "poll"
    /\ server' = [server EXCEPT !.thread = "load"]
    /\ UNCHANGED <<config, cache, call, now, rate, edge>>

\* shutdown_with_timeout(timeout): the flag is stored, the signal is sent
ShutdownWithTimeout(timeout) ==
    /\ server.pc \in {"ready", "failed", "returned"}
    /\ server' = [server EXCEPT !.shutdown_flag = TRUE, !.pc = "signalled",
                                !.deadline = now + timeout, !.outcome = "none"]
    /\ UNCHANGED <<config, cache, call, now, rate, edge>>

\* shutdown()
Shutdown == ShutdownWithTimeout(DefaultShutdownTimeout)

\* inside the timeout: lock, handle_guard.take(); with a handle the join is
\* spawned and awaited, without one the block is finished
ShutdownTake ==
    /\ server.pc = "signalled"
    /\ server' = IF server.handle = "Some"
                 THEN [server EXCEPT !.handle = "None", !.pc = "join"]
                 ELSE [server EXCEPT !.pc = "returned", !.outcome = "no handle"]
    /\ UNCHANGED <<config, cache, call, now, rate, edge>>

\* handle.join() returned (Ok, or Err after a panic): join_result is Ok(_)
ShutdownJoined ==
    /\ server.pc = "join"
    /\ server.thread \in {"exited", "panicked"}
    /\ server' = [server EXCEPT !.pc = "returned", !.outcome = "joined"]
    /\ UNCHANGED <<config, cache, call, now, rate, edge>>

\* the timeout expired first: join_result is Err(_), handle_guard.take()
ShutdownTimedOut ==
    /\ server.pc = "join"
    /\ now >= server.deadline
    /\ server' = [server EXCEPT !.handle = "None", !.pc = "returned",
                                !.outcome = "timed out"]
    /\ UNCHANGED <<config, cache, call, now, rate, edge>>

(***************************************************************************)
(* An adapter operation and its upstream request (openweather.rs,          *)
(* accuweather_enhanced.rs): `if !self.rate_limiter.check_rate_limit()     *)
(* { return Err(RateLimitExceeded) }`, then the request is built and sent. *)
(* upstream is the list of the requests sent: by which thread, the instant *)
(* its check read, the instant the request went out.                       *)
(***************************************************************************)
\* thread t starts an operation of the adapter: the check comes first
ProviderOperation(t) ==
    /\ thread[t].pc = "idle"
    /\ CheckRateLimit(t)

\* the check returned true: self.client.get(&url).send().await
SendRequest(t) ==
    /\ thread[t].pc = "done"
    /\ thread[t].ret
    /\ upstream' = Append(upstream, [thread |-> t, checked |-> thread[t].now, sent |-> now])
    /\ thread' = [thread EXCEPT ![t] = IdleThread]
    /\ UNCHANGED <<config, cache, call, now, limiter, auth, server, request, db>>

\* the check returned false: return Err(WeatherError::RateLimitExceeded)
ReturnRateLimitExceeded(t) ==
    /\ thread[t].pc = "done"
    /\ ~thread[t].ret
    /\ thread' = [thread EXCEPT ![t] = IdleThread]
    /\ UNCHANGED <<config, cache, call, now, limiter, auth, server, edge>>

(***************************************************************************)
(* validate_auth_header (src/src/auth.rs), called by the request handler   *)
(* of the server thread for each request.  A header is <<>> when the       *)
(* request has no Authorization header, else <<bytes>>.                    *)
(*  request.inflight[t]  the request thread t is validating: pc "limit"    *)
(*                       (at the rate limit check), "returned"             *)
(*  request.served[c]    history: the requests of client c that were not   *)
(*                       answered 429 by a limiter                         *)
(***************************************************************************)
\* x ^ y and x | y on u8
RECURSIVE Xor(_, _)
Xor(x, y) ==
    IF x = 0 /\ y = 0 THEN 0
    ELSE ((((x % 2) + (y % 2)) % 2) + (2 * Xor(x \div 2, y \div 2)))

RECURSIVE BitOr(_, _)
BitOr(x, y) ==
    IF x = 0 /\ y = 0 THEN 0
    ELSE (IF (x % 2) = 1 \/ (y % 2) = 1 THEN 1 ELSE 0) + (2 * BitOr(x \div 2, y \div 2))

\* the loop of constant_time_eq: result |= x ^ y
RECURSIVE FoldXor(_, _, _)
FoldXor(a, b, result) ==
    IF a = <<>> THEN result
    ELSE FoldXor(Tail(a), Tail(b), BitOr(result, Xor(Head(a), Head(b))))

\* faulty variant: the comparison stops at the end of the shorter slice
ConstantTimeEqPrefix(a, b) ==
    LET n == IF Len(a) < Len(b) THEN Len(a) ELSE Len(b)
    IN FoldXor(SubSeq(a, 1, n), SubSeq(b, 1, n), 0) = 0

\* constant_time_eq
ConstantTimeEq(a, b) ==
    IF Len(a) # Len(b) THEN FALSE ELSE FoldXor(a, b, 0) = 0

IdleRequest ==
    [pc |-> "idle", client_id |-> "", header |-> <<>>, limited |-> TRUE,
     admitted |-> FALSE, response |-> "none"]

RequestsNew(threads, clients) ==
    [inflight |-> [t \in threads |-> IdleRequest], served |-> [c \in clients |-> 0]]

\* the match on request.header("Authorization")
HeaderResponse(header, api_key) ==
    IF header = <<>> THEN "401"
    ELSE IF ConstantTimeEq(header[1], api_key) THEN "Ok" ELSE "401"

\* thread t enters validate_auth_header(request, api_key, rate_limiter):
\* client_id = request.remote_addr(); limited is rate_limiter.is_some()
ValidateAuthHeader(t, client_id, header, limited) ==
    /\ request.inflight[t].pc \in {"idle", "returned"}
    /\ request' = [request EXCEPT !.inflight[t] =
                      [IdleRequest EXCEPT !.pc = "limit", !.client_id = client_id,
                                          !.header = header, !.limited = limited]]
    /\ UNCHANGED <<config, cache, call, now, rate, server, upstream, db>>

\* if let Some(limiter) = rate_limiter: limiter.check_rate_limit(&client_id)
LimiterConsulted(t) ==
    /\ request.inflight[t].pc = "limit"
    /\ request.inflight[t].limited
    /\ thread[t].pc = "idle"
    /\ AuthCheckRateLimit(t, request.inflight[t].client_id)

\* the check returned false: Err(429 Too Many Requests)
TooManyRequests(t) ==
    /\ request.inflight[t].pc = "limit"
    /\ thread[t].pc = "done"
    /\ ~thread[t].ret
    /\ request' = [request EXCEPT !.inflight[t].pc = "returned",
                                  !.inflight[t].response = "429"]
    /\ thread' = [thread EXCEPT ![t] = AuthIdleThread]
    /\ UNCHANGED <<config, cache, call, now, limiter, auth, server, upstream, db>>

\* the check returned true: the header is compared with the API key
HeaderCompared(t, api_key) ==
    /\ request.inflight[t].pc = "limit"
    /\ thread[t].pc = "done"
    /\ thread[t].ret
    /\ request' = [request EXCEPT
                     !.inflight[t].pc = "returned",
                     !.inflight[t].admitted = TRUE,
                     !.inflight[t].response = HeaderResponse(request.inflight[t].header, api_key),
                     !.served[request.inflight[t].client_id] = @ + 1]
    /\ thread' = [thread EXCEPT ![t] = AuthIdleThread]
    /\ UNCHANGED <<config, cache, call, now, limiter, auth, server, upstream, db>>

\* rate_limiter is None: the header is compared at once
HeaderComparedUnlimited(t, api_key) ==
    /\ request.inflight[t].pc = "limit"
    /\ ~request.inflight[t].limited
    /\ request' = [request EXCEPT
                     !.inflight[t].pc = "returned",
                     !.inflight[t].response = HeaderResponse(request.inflight[t].header, api_key)]
    /\ UNCHANGED <<config, cache, call, now, rate, server, upstream, db>>

(***************************************************************************)
(* DatabasePool and the global pools (src/src/db_pool.rs)                  *)
(*  db.pools[name]  the OnceCell of HOMEBREW_POOL / COMBO_POOL: cell "None" *)
(*                  or "Some"; the holders of further Arc clones (the cell *)
(*                  itself holds one); whether close() was called          *)
(*  db.result[name] what the last init_*_pool call returned                *)
(*  db.main         the task that shuts down: "running", then the pool     *)
(*                  shutdown_pools is at, then "returned"                  *)
(*  db.retry        one get_connection_with_retry call: its locals, and the *)
(*                  history of its attempts and of its backoff delays      *)
(***************************************************************************)
PoolNames == <<"homebrew", "combo">>

\* the tasks that hold a clone of a pool's Arc for a while: the caller of
\* init_*_pool, a caller of get_*_pool
ArcHolders == {"init", "get"}

IdleRetry ==
    [pc |-> "idle", max_retries |-> 0, retries |-> 0, last_error |-> <<>>,
     history |-> <<>>, slept |-> <<>>, ret |-> <<>>]

DatabaseNew ==
    [pools |-> [name \in Range(PoolNames) |->
                  [cell |-> "None", holders |-> {}, closed |-> FALSE]],
     result |-> [name \in Range(PoolNames) |-> "none"],
     main |-> "running",
     retry |-> IdleRetry]

\* the errors of get_connection
ConnectionErrors ==
    {"Failed to get connection from pool", "Connection health check failed",
     "Connection health check timed out"}

\* Duration::from_millis(100 * 2_u64.pow(retries))
BackoffMillis(retries) == 100 * (2 ^ retries)

\* faulty variant: the loop sleeps after every failed attempt
BackoffDueAlways(retries, max_retries) == TRUE

\* if retries < max_retries, after retries += 1
BackoffDue(retries, max_retries) == retries < max_retries

\* the end of the while loop: Err(last_error.unwrap_or_else(..))
RetryExhausted(last_error) ==
    Err(IF last_error = <<>> THEN "All connection attempts failed" ELSE last_error[1])

\* get_connection_with_retry(max_retries) is called on an initialised pool
GetConnectionWithRetry(name, max_retries) ==
    /\ db.retry.pc \in {"idle", "returned"}
    /\ db.pools[name].cell = "Some"
    /\ db' = [db EXCEPT !.retry =
                 IF 0 < max_retries
                 THEN [IdleRetry EXCEPT !.pc = "attempt", !.max_retries = max_retries]
                 ELSE [IdleRetry EXCEPT !.pc = "returned", !.max_retries = max_retries,
                                        !.ret = <<RetryExhausted(<<>>)>>]]
    /\ UNCHANGED <<config, cache, call, now, rate, server, upstream, request>>

\* self.get_connection().await gave Ok(client): return Ok(client)
GetConnectionOk ==
    /\ db.retry.pc = "attempt"
    /\ db' = [db EXCEPT !.retry.pc = "returned",
                        !.retry.history = Append(@, "Ok"),
                        !.retry.ret = <<Ok([attempt |-> Len(db.retry.history) + 1])>>]
    /\ UNCHANGED <<config, cache, call, now, rate, server, upstream, request>>

\* self.get_connection().await gave Err(e): count it, back off or leave the loop
GetConnectionErr(e) ==
    /\ db.retry.pc = "attempt"
    /\ LET retries == db.retry.retries + 1
           again == retries < db.retry.max_retries
       IN db' = [db EXCEPT
                   !.retry.last_error = <<e>>,
                   !.retry.retries = retries,
                   !.retry.history = Append(@, e),
                   !.retry.slept = IF BackoffDue(retries, db.retry.max_retries)
                                   THEN Append(@, BackoffMillis(retries)) ELSE @,
                   !.retry.pc = IF again THEN "attempt" ELSE "returned",
                   !.retry.ret = IF again THEN <<>> ELSE <<RetryExhausted(<<e>>)>>]
    /\ UNCHANGED <<config, cache, call, now, rate, server, upstream, request>>

\* Arc::strong_count of a pool
StrongCount(pool) == 1 + Cardinality(pool.holders)

\* Arc::try_unwrap gives Ok exactly when the Arc is the only strong reference
TryUnwrapOk(strong_count) == strong_count = 1

\* init_homebrew_pool / init_combo_pool returns Ok: the cell is set (or was set
\* already) and the caller holds a clone
InitPool(name) ==
    /\ db.main = "running"
    /\ db' = [db EXCEPT
                 !.pools[name] = [@ EXCEPT !.cell = "Some", !.holders = @ \cup {"init"}],
                 !.result[name] = "Ok"]
    /\ UNCHANGED <<config, cache, call, now, rate, server, upstream, request>>

\* DatabasePool::new_* fails: get_or_try_init leaves the cell empty
InitPoolFails(name) ==
    /\ db.main = "running"
    /\ db.pools[name].cell = "None"
    /\ db.result[name] # "Err"
    /\ db' = [db EXCEPT !.result[name] = "Err"]
    /\ UNCHANGED <<config, cache, call, now, rate, server, upstream, request>>

\* get_homebrew_pool / get_combo_pool: Some(Arc::clone(pool))
GetPool(name) ==
    /\ db.pools[name].cell = "Some"
    /\ "get" \notin db.pools[name].holders
    /\ db' = [db EXCEPT !.pools[name].holders = @ \cup {"get"}]
    /\ UNCHANGED <<config, cache, call, now, rate, server, upstream, request>>

\* a holder drops its clone
DropArc(name, holder) ==
    /\ db.pools[name].cell = "Some"
    /\ holder \in db.pools[name].holders
    /\ db' = [db EXCEPT !.pools[name].holders = @ \ {holder}]
    /\ UNCHANGED <<config, cache, call, now, rate, server, upstream, request>>

\* main calls shutdown_pools
ShutdownPools ==
    /\ db.main = "running"
    /\ db' = [db EXCEPT !.main = PoolNames[1]]
    /\ UNCHANGED <<config, cache, call, now, rate, server, upstream, request>>

\* if let Some(pool) = POOL.get() { if let Ok(pool) = Arc::try_unwrap(Arc::clone(pool))
\* { pool.close().await } }: the clone made for try_unwrap counts as a reference
ShutdownPool(i) ==
    /\ db.main = PoolNames[i]
    /\ LET name == PoolNames[i]
           pool == db.pools[name]
       IN db' = [db EXCEPT
                   !.pools[name] =
                       IF pool.cell = "Some" /\ TryUnwrapOk(StrongCount(pool) + 1)
                       THEN [pool EXCEPT !.closed = TRUE]
                       ELSE pool,
                   !.main = IF i < Len(PoolNames) THEN PoolNames[i + 1] ELSE "returned"]
    /\ UNCHANGED <<config, cache, call, now, rate, server, upstream, request>>

\* nothing sent upstream, no request being validated, no pool
InitEdge ==
    /\ upstream = <<>>
    /\ request = RequestsNew({}, {})
    /\ db = DatabaseNew

(***************************************************************************)
(* The aggregation service: construction, callers, adapters, clock         *)
(***************************************************************************)
InitCombo(adds, seconds, enabled, callers) ==
    LET self == Build(adds, seconds, enabled)
    IN /\ providers = self.providers
       /\ weights = self.weights
       /\ cache_duration_secs = self.cache_duration_secs
       /\ fallback_enabled = self.fallback_enabled
       /\ cache = WeatherCacheNew
       /\ now = 0
       /\ call = [c \in callers |-> IdleCall]
       /\ limiter = RateLimiterNew(TestMaxRequests, TestWindowSeconds)
       /\ thread = [t \in {} |-> IdleThread]
       /\ auth = AuthRateLimiterNew(TestMaxRequests, TestWindowSeconds)
       /\ server = ConfigNew
       /\ InitEdge

\* the index and the name of the adapter caller c is suspended on
InFlight(c) == CHOOSE j \in call[c].inflight : TRUE
InFlightName(c) == providers[InFlight(c)].name

\* caller c is suspended on an adapter call of operation op
Awaiting(c, op) == call[c].pc = "await" /\ call[c].op = op

\* caller c has made no call yet
FirstCall(c) == call[c].pc = "idle"

\* a run of the service exercises one cached operation (entries of different
\* operations never share a cache key) and may go on with get_historical
SameOp(c, op) == call[c].op \in {"none", op}

WeatherAnswers(c, samples) ==
    {AdapterWeather(InFlight(c), InFlightName(c), x[1], x[2]) : x \in samples}

ForecastSamples ==
    {<<<<AdapterDaily(<<1>>, 10, {})>>, <<>>>>,
     <<<<AdapterDaily(<<1>>, 20, OptionalFields), AdapterDaily(<<2>>, 10, {})>>,
       <<<<AdapterHourly(<<1>>, 10, OptionalFields)>>>>>>}

ForecastAnswers(c) ==
    {AdapterForecast(InFlight(c), InFlightName(c), x[1], x[2]) : x \in ForecastSamples}

AlertAnswers(c) ==
    {<<>>, <<AdapterAlert(<<"a">>, <<"c">>, "Severe")>>}

HistoricalAnswers(c) ==
    {AdapterHistorical(InFlight(c), InFlightName(c), call[c].arg, 10)}

Location1 == <<"x">>
Days1 == 3
Date1 == <<1>>

(***************************************************************************)
(* Spec: one caller, the cache and the clock                               *)
(***************************************************************************)
\* chains of add_provider calls; the third is the one of examples/weather_api_usage.rs
Deployments ==
    {<<>>,
     <<<<OpenWeather, F(0)>>>>,
     <<<<AccuWeather, Fin(3, 2)>>, <<OpenWeather, F(1)>>>>,
     <<<<Homebrew, F(2)>>, <<OpenWeather, F(1)>>>>}

CacheDurations == {0, 2}

CacheWeatherSamples == {<<10, {}>>, <<20, OptionalFields>>}

Init ==
    \E adds \in Deployments, seconds \in CacheDurations, enabled \in BOOLEAN :
        InitCombo(adds, seconds, enabled, {"c1"})

Next ==
    \/ \E c \in DOMAIN call :
          SameOp(c, "get_current_weather") /\ GetCurrentWeather(c, Location1)
    \/ \E c \in DOMAIN call :
          SameOp(c, "get_forecast") /\ GetForecast(c, Location1, Days1)
    \/ \E c \in DOMAIN call :
          SameOp(c, "get_alerts") /\ GetAlerts(c, Location1)
    \/ \E c \in DOMAIN call : GetHistorical(c, Location1, Date1)
    \/ \E c \in DOMAIN call : Awaiting(c, "get_current_weather")
          /\ \E data \in WeatherAnswers(c, CacheWeatherSamples) : AdapterOk(c, data)
    \/ \E c \in DOMAIN call : Awaiting(c, "get_forecast")
          /\ \E data \in ForecastAnswers(c) : AdapterOk(c, data)
    \/ \E c \in DOMAIN call : Awaiting(c, "get_alerts")
          /\ \E data \in AlertAnswers(c) : AdapterOk(c, data)
    \/ \E c \in DOMAIN call : Awaiting(c, "get_historical")
          /\ \E data \in HistoricalAnswers(c) : AdapterOk(c, data)
    \/ \E c \in DOMAIN call, kind \in WeatherErrorKinds :
          call[c].pc = "await" /\ AdapterErr(c, AdapterError(kind))
    \/ Tick

Spec == Init /\ [][Next]_vars

(***************************************************************************)
(* Properties of the cache (Spec)                                          *)
(***************************************************************************)
\* the entry of key is younger than the cache duration
Fresh(key) ==
    key \in DOMAIN cache /\ now - cache[key].timestamp < cache_duration_secs

\* this step starts a call of caller c
BeginStep(c) == call[c].pc \in {"idle", "done"} /\ call'[c] # call[c]

\* this step ends a call of caller c that went through the fan-out
FanoutEndStep(c) == call'[c].pc = "done" /\ call'[c] # call[c] /\ call'[c].lookup # "hit"

\* C1: after get_current_weather(loc) has returned Ok, a later get_current_weather(loc)
\* made while the entry is younger than cache_duration_secs invokes no adapter and
\* returns the Weather that was stored.
C1_CacheHitSkipsAdapters ==
    [][\A c \in DOMAIN call :
          (/\ call[c].pc = "done" /\ call[c].op = "get_current_weather"
           /\ call[c].ret[1].ok
           /\ Fresh(call[c].cache_key)
           /\ BeginStep(c)
           /\ call'[c].cache_key = call[c].cache_key)
          => (/\ call'[c].pc = "done"
              /\ call'[c].invoked = <<>>
              /\ call'[c].ret = call[c].ret)]_vars

\* the lookup half of C2: a cached operation sees a value if and only if the entry
\* exists and is younger than the cache duration (age = ttl is a miss, a duration of 0
\* never hits); a value that parses is returned as it is, and a miss starts a fan-out
\* with no results
C2_Lookup(c) ==
    (BeginStep(c) /\ Cached(call'[c].op)) =>
        LET key == call'[c].cache_key
        IN /\ Fresh(key) <=> call'[c].lookup \in {"hit", "unparsable"}
           /\ cache_duration_secs = 0 => call'[c].lookup # "hit"
           /\ call'[c].lookup = "hit" =>
                 /\ call'[c].ret = <<FromValue(call'[c].op, cache[key].value)>>
                 /\ call'[c].invoked = <<>>
           /\ call'[c].lookup # "hit" =>
                 /\ call'[c].results = <<>>
                 /\ call'[c].pc = "await" \/ call'[c].invoked = <<>>

\* C2 as claimed: every miss of a cached operation ends with the entry overwritten
C2_MissOverwrites ==
    [][\A c \in DOMAIN call :
          /\ C2_Lookup(c)
          /\ (FanoutEndStep(c) /\ Cached(call'[c].op)) =>
                /\ call'[c].cache_key \in DOMAIN cache'
                /\ cache'[call'[c].cache_key].timestamp = now]_vars

\* C2 as amended: a miss whose fan-out yields a result overwrites the entry with that
\* result and the current time; a miss that ends in an error leaves the cache as it was
C2_MissOverwritesOnSuccess ==
    [][\A c \in DOMAIN call :
          /\ C2_Lookup(c)
          /\ (FanoutEndStep(c) /\ Cached(call'[c].op)) =>
                IF call'[c].ret[1].ok
                THEN cache' = WeatherCacheSet(cache, call'[c].cache_key,
                                              ToValue(call'[c].op, call'[c].ret[1].val), now)
                ELSE cache' = cache]_vars

\* a stale entry was missed and has been overwritten by the fresh result
C2_Witness ==
    \E c \in DOMAIN call :
        /\ call[c].pc = "done" /\ call[c].lookup = "stale" /\ call[c].op = "get_forecast"
        /\ call[c].ret[1].ok /\ call[c].invoked # <<>>
        /\ cache_duration_secs > 0
        /\ cache[call[c].cache_key].timestamp = now

(***************************************************************************)
(* SpecFanout: every chain of up to MaxProviders add_provider calls; the   *)
(* clock stands still.  With a cache duration of 1 a stored entry hits.    *)
(***************************************************************************)
FanoutWeatherSamples == {<<10, {"humidity", "pressure"}>>}

\* set_cache_duration(300) of tests/integration_tests.rs
TestCacheDuration == 300

\* the last disjunct is the ComboProvider of test_combo_provider_with_multiple_providers
InitFanout ==
    \/ \E adds \in SeqsUpTo(AdapterKinds \X {F(1)}, MaxProviders),
          seconds \in {0, 1}, enabled \in BOOLEAN :
           InitCombo(adds, seconds, enabled, {"c1"})
    \/ InitCombo(<<>>, TestCacheDuration, TRUE, {"c1"})

NextFanout ==
    \/ \E c \in DOMAIN call :
          SameOp(c, "get_current_weather") /\ GetCurrentWeather(c, Location1)
    \/ \E c \in DOMAIN call :
          SameOp(c, "get_forecast") /\ GetForecast(c, Location1, Days1)
    \/ \E c \in DOMAIN call :
          SameOp(c, "get_alerts") /\ GetAlerts(c, Location1)
    \/ \E c \in DOMAIN call :
          SameOp(c, "get_historical") /\ GetHistorical(c, Location1, Date1)
    \/ \E c \in DOMAIN call : Awaiting(c, "get_current_weather")
          /\ \E data \in WeatherAnswers(c, FanoutWeatherSamples) : AdapterOk(c, data)
    \/ \E c \in DOMAIN call : Awaiting(c, "get_forecast")
          /\ \E data \in ForecastAnswers(c) : AdapterOk(c, data)
    \/ \E c \in DOMAIN call : Awaiting(c, "get_alerts")
          /\ \E data \in AlertAnswers(c) : AdapterOk(c, data)
    \/ \E c \in DOMAIN call : Awaiting(c, "get_historical")
          /\ \E data \in HistoricalAnswers(c) : AdapterOk(c, data)
    \/ \E c \in DOMAIN call, kind \in WeatherErrorKinds :
          call[c].pc = "await" /\ AdapterErr(c, AdapterError(kind))

SpecFanout == InitFanout /\ [][NextFanout]_vars

\* the call of caller c has returned after a fan-out (not from the cache)
ReturnedAfterFanout(c) == call[c].pc = "done" /\ call[c].lookup # "hit"

\* some adapter invoked by the call of caller c returned Ok
SomeOk(c) == \E j \in 1..Len(call[c].outcomes) : call[c].outcomes[j] = "Ok"

\* the indices of the providers the fan-out of op may call, ascending
RECURSIVE GatedFrom(_, _)
GatedFrom(op, i) ==
    IF i > Len(providers) THEN <<>>
    ELSE (IF Gated(op, providers[i]) THEN <<i>> ELSE <<>>) \o GatedFrom(op, i + 1)

IsPrefix(s, t) == Len(s) <= Len(t) /\ \A j \in 1..Len(s) : s[j] = t[j]

\* C3: on a cache miss get_current_weather returns Ok if some invoked adapter returned
\* Ok, and NotFound (its own, never an adapter's error value) if none did.
C3_OkIffSomeAdapterOk ==
    \A c \in DOMAIN call :
        (ReturnedAfterFanout(c) /\ call[c].op = "get_current_weather") =>
            /\ call[c].ret[1].ok <=> SomeOk(c)
            /\ ~call[c].ret[1].ok =>
                  /\ call[c].ret[1].val.kind = "NotFound"
                  /\ call[c].ret[1].val \notin {AdapterError(k) : k \in WeatherErrorKinds}

C3_Witness ==
    \E c \in DOMAIN call :
        /\ ReturnedAfterFanout(c) /\ call[c].op = "get_current_weather"
        /\ call[c].outcomes = <<"Err", "Ok">> /\ call[c].ret[1].ok

\* C4: when no adapter succeeds, get_forecast and get_historical fail with NotFound and
\* get_alerts returns Ok with an empty list; get_alerts never returns an error.
C4_EmptyResults ==
    \A c \in DOMAIN call :
        /\ (ReturnedAfterFanout(c) /\ ~SomeOk(c)) =>
              /\ call[c].op \in {"get_forecast", "get_historical"} =>
                    ~call[c].ret[1].ok /\ call[c].ret[1].val.kind = "NotFound"
              /\ call[c].op = "get_alerts" => call[c].ret = <<Ok(<<>>)>>
        /\ (call[c].pc = "done" /\ call[c].op = "get_alerts") => call[c].ret[1].ok

C4_Witness ==
    \E c \in DOMAIN call :
        /\ ReturnedAfterFanout(c) /\ call[c].op = "get_alerts"
        /\ call[c].outcomes = <<"Err", "Err">> /\ call[c].ret = <<Ok(<<>>)>>

\* C5: with fallback disabled a missed get_current_weather, get_forecast or
\* get_historical calls the adapters in insertion order, each at most once, calls none
\* after the first Ok, and builds its result from that one adapter.
C5_StopsAtFirstOk ==
    \A c \in DOMAIN call :
        (~fallback_enabled
         /\ call[c].op \in {"get_current_weather", "get_forecast", "get_historical"}) =>
            LET rec == call[c]
                n == Len(rec.outcomes)
            IN /\ IsPrefix(rec.invoked, GatedFrom(rec.op, 1))
               /\ \A j \in 1..(n - 1) : rec.outcomes[j] = "Err"
               /\ SomeOk(c) =>
                     /\ rec.pc = "done" /\ Len(rec.invoked) = n
                     /\ rec.results =
                          <<<<providers[rec.invoked[n]].name, rec.results[1][2]>>>>
                     /\ rec.ret[1].ok
                     /\ rec.ret[1].val.location =
                          Location(<<providers[rec.invoked[n]].name>>, F(rec.invoked[n]), F(0))
               /\ (rec.pc = "done" /\ rec.op = "get_historical" /\ SomeOk(c)) =>
                     rec.ret[1].val = rec.results[1][2]

\* the first adapter answered Ok and the second, though eligible, was never called
C5_Witness ==
    \E c \in DOMAIN call :
        /\ ~fallback_enabled /\ call[c].pc = "done" /\ call[c].op = "get_forecast"
        /\ Len(GatedFrom("get_forecast", 1)) = 2
        /\ call[c].invoked = <<1>> /\ call[c].outcomes = <<"Ok">>

\* C6: with fallback enabled a missed get_current_weather calls every configured
\* adapter exactly once, in insertion order, each call completing before the next
\* starts: never two adapter calls of one aggregation in flight.
C6_SequentialFanout ==
    \A c \in DOMAIN call :
        (fallback_enabled /\ call[c].op = "get_current_weather") =>
            LET rec == call[c]
            IN /\ Cardinality(rec.inflight) <= 1
               /\ Len(rec.outcomes) = Len(rec.invoked) - Cardinality(rec.inflight)
               /\ \A j \in 1..Len(rec.invoked) : rec.invoked[j] = j
               /\ rec.inflight # {} => rec.inflight = {rec.invoked[Len(rec.invoked)]}
               /\ ReturnedAfterFanout(c) => Len(rec.invoked) = Len(providers)

C6_Witness ==
    \E c \in DOMAIN call :
        /\ fallback_enabled /\ ReturnedAfterFanout(c) /\ call[c].op = "get_current_weather"
        /\ call[c].invoked = <<1, 2>> /\ call[c].outcomes = <<"Ok", "Err">>

(***************************************************************************)
(* SpecCombine: one get_current_weather call over weighted providers, the  *)
(* cache switched off (duration 0)                                         *)
(***************************************************************************)
\* add_provider calls: the weights of the tests and the example, a zero and a
\* negative weight (add_provider takes any f64)
CombineAdds ==
    {<<AccuWeather, F(1)>>, <<AccuWeather, F(2)>>, <<OpenWeather, F(1)>>,
     <<OpenWeather, F(0)>>, <<AccuWeather, F(-1)>>}

\* temperature, reported optional fields (humidity is temperature + 30)
CombineWeatherSamples ==
    {<<10, {"humidity", "pressure"}>>, <<20, {"humidity"}>>, <<22, {}>>}

InitCombine ==
    \E adds \in SeqsUpTo(CombineAdds, MaxProviders), enabled \in BOOLEAN :
        InitCombo(adds, 0, enabled, {"c1"})

NextCombine ==
    \/ \E c \in DOMAIN call : FirstCall(c) /\ GetCurrentWeather(c, Location1)
    \/ \E c \in DOMAIN call : Awaiting(c, "get_current_weather")
          /\ \E data \in WeatherAnswers(c, CombineWeatherSamples) : AdapterOk(c, data)
    \/ \E c \in DOMAIN call, kind \in WeatherErrorKinds :
          call[c].pc = "await" /\ AdapterErr(c, AdapterError(kind))

SpecCombine == InitCombine /\ [][NextCombine]_vars

RECURSIVE SumOver(_, _)
SumOver(f, S) ==
    IF S = {} THEN 0
    ELSE LET x == CHOOSE y \in S : TRUE IN f[x] + SumOver(f, S \ {x})

\* the adapter calls of caller c that returned Ok (positions in call order)
OkCalls(c) == {j \in 1..Len(call[c].outcomes) : call[c].outcomes[j] = "Ok"}

\* what the j-th adapter call of caller c answered, j in OkCalls(c)
AnswerOf(c, j) == call[c].results[Cardinality({k \in OkCalls(c) : k <= j})][2]

\* the weight held for the provider of the j-th adapter call (a whole number here)
WeightGiven(c, j) == weights[providers[call[c].invoked[j]].name].n

\* v is the quotient num / den of two integers (0/0 and x/0 are not finite)
IsQuotient(v, num, den) ==
    IF den = 0 THEN ~IsFinite(v) ELSE IsFinite(v) /\ v.n * den = num * v.d

\* get_current_weather of caller c went through the fan-out and returned Ok
CombinedOk(c) ==
    ReturnedAfterFanout(c) /\ call[c].op = "get_current_weather" /\ call[c].ret[1].ok

\* C7: the combined temperature is the sum of temperature x weight over the providers
\* whose adapter call returned Ok, divided by the sum of the weights of those providers
\* only; failed and uninvoked providers are in neither sum.
C7_WeightedTemperature ==
    \A c \in DOMAIN call :
        CombinedOk(c) =>
            LET S == OkCalls(c)
                W == SumOver([j \in S |-> WeightGiven(c, j)], S)
                T == SumOver([j \in S |-> AnswerOf(c, j).temperature.n * WeightGiven(c, j)], S)
            IN /\ S # {}
               /\ IsQuotient(call[c].ret[1].val.temperature, T, W)

\* temperatures 10 and 20 with weights 2 and 1 gave 40/3
C7_Witness ==
    \E c \in DOMAIN call :
        /\ CombinedOk(c) /\ call[c].outcomes = <<"Ok", "Ok">>
        /\ WeightGiven(c, 1) = 2 /\ WeightGiven(c, 2) = 1
        /\ AnswerOf(c, 1).temperature = F(10) /\ AnswerOf(c, 2).temperature = F(20)
        /\ call[c].ret[1].val.temperature = Fin(40, 3)

\* the adapter calls of caller c that returned Ok with the field reported
Reporters(c, field) == {j \in OkCalls(c) : IsSome(AnswerOf(c, j)[field])}

\* the combined field is the weighted average over the reporters of the field
FieldIsAverage(c, field) ==
    LET R == Reporters(c, field)
        W == SumOver([j \in R |-> WeightGiven(c, j)], R)
        S == SumOver([j \in R |-> AnswerOf(c, j)[field].n * WeightGiven(c, j)], R)
        v == call[c].ret[1].val[field]
    IN IsSome(v) /\ IsQuotient(v, S, W)

\* C8: every optional field of the combined Weather is the sum of value x weight over
\* the contributing providers that reported it divided by the sum of the weights of
\* exactly those providers, and None if no contributing provider reported it.
C8_OptionalFieldsAveraged ==
    \A c \in DOMAIN call :
        CombinedOk(c) =>
            \A field \in OptionalFields :
                IF Reporters(c, field) = {}
                THEN call[c].ret[1].val[field] = None
                ELSE FieldIsAverage(c, field)

\* what is left of C8 where the weights of the reporters of a field sum to more than 0
OptionalFieldsAveragedOverPositiveWeight ==
    \A c \in DOMAIN call :
        CombinedOk(c) =>
            \A field \in OptionalFields :
                LET R == Reporters(c, field)
                IN /\ R = {} => call[c].ret[1].val[field] = None
                   /\ SumOver([j \in R |-> WeightGiven(c, j)], R) > 0 => FieldIsAverage(c, field)

(***************************************************************************)
(* SpecAlerts: one get_alerts call over two providers that both serve      *)
(* alerts                                                                  *)
(***************************************************************************)
MaxAlerts == 2         \* alerts in one adapter's answer

AlertDeployments ==
    {<<<<AccuWeather, F(1)>>, <<Homebrew, F(1)>>>>,
     <<<<OpenWeather, F(1)>>, <<OpenWeather, F(1)>>>>}

\* titles and starts with and without a '-'; the last two differ in severity only
AlertSamples ==
    {AdapterAlert(<<"a", "-", "b">>, <<"c">>, "Severe"),
     AdapterAlert(<<"a">>, <<"b", "-", "c">>, "Minor"),
     AdapterAlert(<<"a">>, <<"c">>, "Extreme"),
     AdapterAlert(<<"a">>, <<"c">>, "Moderate")}

\* the cache is off (0) or holds an entry for a second (1)
InitAlerts ==
    \E adds \in AlertDeployments, seconds \in {0, 1}, enabled \in BOOLEAN :
        InitCombo(adds, seconds, enabled, {"c1"})

\* a second call is made while the entry of the first is fresh
NextAlerts ==
    \/ \E c \in DOMAIN call :
          /\ FirstCall(c) \/ (call[c].pc = "done" /\ Fresh(call[c].cache_key))
          /\ GetAlerts(c, Location1)
    \/ \E c \in DOMAIN call : Awaiting(c, "get_alerts")
          /\ \E data \in SeqsUpTo(AlertSamples, MaxAlerts) : AdapterOk(c, data)
    \/ \E c \in DOMAIN call, kind \in WeatherErrorKinds :
          call[c].pc = "await" /\ AdapterErr(c, AdapterError(kind))

SpecAlerts == InitAlerts /\ [][NextAlerts]_vars

\* get_alerts of caller c went through the fan-out and returned
MergedAlerts(c) == ReturnedAfterFanout(c) /\ call[c].op = "get_alerts"

\* the title of a merged alert without its "[<provider>] " prefix
OriginalTitle(alert) == SubSeq(alert.title, 5, Len(alert.title))

\* alert number i of the k-th answering provider has this title and start
SamePair(c, k, i, title, start) ==
    /\ call[c].results[k][2][i].title = title
    /\ call[c].results[k][2][i].start = start

\* the (title, start) pairs the answering providers reported
ReportedPairs(c) ==
    {<<call[c].results[k][2][i].title, call[c].results[k][2][i].start>> :
        <<k, i>> \in {<<k, i>> \in (1..Len(call[c].results)) \X (1..MaxAlerts) :
                          i <= Len(call[c].results[k][2])}}

\* C9: no two merged alerts have the same original (title, start); every merged alert
\* is the first alert with its (title, start) in insertion order, its title prefixed
\* with "[<provider>] " for the provider that reported it there; providers reporting
\* one and the same (title, start) yield exactly one alert.
C9_DuplicatesDropped ==
    \A c \in DOMAIN call :
        MergedAlerts(c) =>
            LET out == call[c].ret[1].val
                res == call[c].results
            IN /\ \A i, j \in 1..Len(out) :
                     (OriginalTitle(out[i]) = OriginalTitle(out[j]) /\ out[i].start = out[j].start)
                        => i = j
               /\ \A i \in 1..Len(out) :
                     \E k \in 1..Len(res) : \E x \in 1..Len(res[k][2]) :
                        /\ out[i] = [res[k][2][x] EXCEPT
                                        !.title = <<"[", res[k][1], "]", " ">> \o @]
                        /\ \A k2 \in 1..k : \A x2 \in 1..Len(res[k2][2]) :
                              SamePair(c, k2, x2, res[k][2][x].title, res[k][2][x].start)
                                 => (k2 = k /\ x2 >= x)
               /\ Cardinality(ReportedPairs(c)) = 1 => Len(out) = 1

\* two providers reported the same (title, start) with different severities: the
\* first one's alert is the only one kept
C9_Witness ==
    \E c \in DOMAIN call :
        /\ MergedAlerts(c)
        /\ call[c].results =
              <<<<"AccuWeather", <<AdapterAlert(<<"a">>, <<"c">>, "Moderate")>>>>,
                <<"Homebrew", <<AdapterAlert(<<"a">>, <<"c">>, "Extreme")>>>>>>
        /\ call[c].ret =
              <<Ok(<<AdapterAlert(<<"[", "AccuWeather", "]", " ", "a">>, <<"c">>, "Moderate")>>)>>

\* C10: alerts are duplicates only if their titles are equal and their starts are
\* equal, so every reported (title, start) pair is present in the merged output.
C10_DistinctAlertsAllPresent ==
    \A c \in DOMAIN call :
        MergedAlerts(c) =>
            \A p \in ReportedPairs(c) :
                \E i \in 1..Len(call[c].ret[1].val) :
                    /\ OriginalTitle(call[c].ret[1].val[i]) = p[1]
                    /\ call[c].ret[1].val[i].start = p[2]

\* C11: the list get_alerts returns, merged afresh or read from the cache, is in
\* descending order of severity (Minor < Moderate < Severe < Extreme): no alert is
\* preceded by one of lower severity.
C11_SeverityDescending ==
    \A c \in DOMAIN call :
        (call[c].pc = "done" /\ call[c].op = "get_alerts") =>
            LET out == call[c].ret[1].val
            IN \A i, j \in 1..Len(out) :
                  i < j => SeverityRank(out[i].severity) >= SeverityRank(out[j].severity)

\* a Minor and an Extreme alert, reported in that order, are served from the cache
\* with the Extreme one first
C11_Witness ==
    \E c \in DOMAIN call :
        /\ call[c].pc = "done" /\ call[c].op = "get_alerts" /\ call[c].lookup = "hit"
        /\ Len(call[c].ret[1].val) = 2
        /\ call[c].ret[1].val[1].severity = "Extreme"
        /\ call[c].ret[1].val[2].severity = "Minor"
        /\ call[c].ret[1].val[2].title = <<"[", "AccuWeather", "]", " ", "a">>

\* C12: a missed get_alerts calls every adapter that supports Alerts, once each and in
\* insertion order, whatever fallback_enabled is: with fallback disabled the adapters
\* after a successful one are still called.
C12_AlertsQueriesAll ==
    \A c \in DOMAIN call :
        call[c].op = "get_alerts" =>
            /\ IsPrefix(call[c].invoked, GatedFrom("get_alerts", 1))
            /\ Len(call[c].outcomes) = Len(call[c].invoked) - Cardinality(call[c].inflight)
            /\ ReturnedAfterFanout(c) => call[c].invoked = GatedFrom("get_alerts", 1)

\* fallback is disabled, the first adapter answered Ok and the second was called too
C12_Witness ==
    \E c \in DOMAIN call :
        /\ ~fallback_enabled /\ ReturnedAfterFanout(c) /\ call[c].op = "get_alerts"
        /\ call[c].invoked = <<1, 2>> /\ call[c].outcomes = <<"Ok", "Ok">>

(***************************************************************************)
(* SpecForecast: one get_forecast call over weighted providers, the cache  *)
(* switched off                                                            *)
(***************************************************************************)
MaxDays == 2           \* entries in one adapter's daily list

\* Homebrew serves no forecast; a weight of 0 is accepted
ForecastDeployments ==
    {<<<<AccuWeather, F(2)>>, <<OpenWeather, F(1)>>>>,
     <<<<Homebrew, F(1)>>, <<OpenWeather, F(3)>>>>,
     <<<<OpenWeather, F(0)>>>>}

\* date strings as character codes: <<1, 0>> sorts before <<2>>
DailySamples ==
    {AdapterDaily(<<2>>, 10, {}),
     AdapterDaily(<<2>>, 20, {"humidity", "uv_index"}),
     AdapterDaily(<<1, 0>>, 20, {"humidity"})}

DailyAnswers(c) ==
    {AdapterForecast(InFlight(c), InFlightName(c), daily, <<>>) :
        daily \in SeqsUpTo(DailySamples, MaxDays)}

InitForecast ==
    \E adds \in ForecastDeployments, enabled \in BOOLEAN :
        InitCombo(adds, 0, enabled, {"c1"})

NextForecast ==
    \/ \E c \in DOMAIN call : FirstCall(c) /\ GetForecast(c, Location1, Days1)
    \/ \E c \in DOMAIN call : Awaiting(c, "get_forecast")
          /\ \E data \in DailyAnswers(c) : AdapterOk(c, data)
    \/ \E c \in DOMAIN call, kind \in WeatherErrorKinds :
          call[c].pc = "await" /\ AdapterErr(c, AdapterError(kind))

SpecForecast == InitForecast /\ [][NextForecast]_vars

\* get_forecast of caller c went through the fan-out and returned Ok
CombinedForecastOk(c) ==
    ReturnedAfterFanout(c) /\ call[c].op = "get_forecast" /\ call[c].ret[1].ok

\* <<k, i>>: entry i of the daily list of the k-th contributing provider
DailyIndex(c) ==
    {<<k, i>> \in (1..Len(call[c].results)) \X (1..MaxDays) :
        i <= Len(call[c].results[k][2].daily)}

DailyAt(c, e) == call[c].results[e[1]][2].daily[e[2]]

\* the entries of the contributing providers for one date
DateBucket(c, date) == {e \in DailyIndex(c) : DailyAt(c, e).date = date}

\* C13: the combined forecast has exactly one DailyForecast per distinct date string of
\* the contributing providers' daily lists, no date twice and no other date, and the
\* daily list is sorted ascending by date string.
C13_OneEntryPerDate ==
    \A c \in DOMAIN call :
        CombinedForecastOk(c) =>
            LET out == call[c].ret[1].val.daily
            IN /\ {out[i].date : i \in 1..Len(out)} = {DailyAt(c, e).date : e \in DailyIndex(c)}
               /\ \A i, j \in 1..Len(out) : i < j => StrLess(out[i].date, out[j].date)

\* the first provider reported the dates "2" and "10", the second "2": two entries, "10" first
C13_Witness ==
    \E c \in DOMAIN call :
        /\ CombinedForecastOk(c) /\ Len(call[c].results) = 2
        /\ Len(call[c].results[1][2].daily) = 2
        /\ call[c].results[1][2].daily[1].date = <<2>>
        /\ call[c].results[1][2].daily[2].date = <<1, 0>>
        /\ Len(call[c].results[2][2].daily) = 1
        /\ call[c].results[2][2].daily[1].date = <<2>>
        /\ Len(call[c].ret[1].val.daily) = 2
        /\ call[c].ret[1].val.daily[1].date = <<1, 0>>
        /\ call[c].ret[1].val.daily[2].date = <<2>>

\* the weight held for the provider of entry e (a whole number here)
EntryWeight(c, e) == weights[call[c].results[e[1]][1]].n

\* C14: temperature_min and temperature_max of each date bucket are the sums of
\* value x weight over the entries of that bucket divided by the sum of the weights of
\* those entries; a provider without an entry for the date is in neither sum.
C14_BucketTemperatures ==
    \A c \in DOMAIN call :
        CombinedForecastOk(c) =>
            \A i \in 1..Len(call[c].ret[1].val.daily) :
                LET day == call[c].ret[1].val.daily[i]
                    B == DateBucket(c, day.date)
                    W == SumOver([e \in B |-> EntryWeight(c, e)], B)
                    Tmin == SumOver([e \in B |->
                                DailyAt(c, e).temperature_min.n * EntryWeight(c, e)], B)
                    Tmax == SumOver([e \in B |->
                                DailyAt(c, e).temperature_max.n * EntryWeight(c, e)], B)
                IN /\ B # {}
                   /\ IsQuotient(day.temperature_min, Tmin, W)
                   /\ IsQuotient(day.temperature_max, Tmax, W)

\* date "2": minimum 10 with weight 2 and 20 with weight 1 gave 40/3; date "10" came
\* from the second provider alone and kept its minimum of 20
C14_Witness ==
    \E c \in DOMAIN call :
        /\ CombinedForecastOk(c) /\ Len(call[c].results) = 2
        /\ weights[call[c].results[1][1]] = F(2) /\ weights[call[c].results[2][1]] = F(1)
        /\ Len(call[c].results[1][2].daily) = 1 /\ Len(call[c].results[2][2].daily) = 2
        /\ Len(call[c].ret[1].val.daily) = 2
        /\ call[c].ret[1].val.daily[1].date = <<1, 0>>
        /\ call[c].ret[1].val.daily[1].temperature_min = F(20)
        /\ call[c].ret[1].val.daily[2].temperature_min = Fin(40, 3)
        /\ call[c].ret[1].val.daily[2].temperature_max = Fin(70, 3)

\* the first adapter call of caller c that returned Ok
FirstOk(c) == CHOOSE j \in OkCalls(c) : \A k \in OkCalls(c) : j <= k

\* C15: get_historical returns unchanged the HistoricalData of the first adapter, in
\* insertion order, that supports HistoricalData and succeeded, fails with NotFound if
\* none did, and neither reads nor writes the cache: every call goes to the adapters.
C15_HistoricalFirstUncached ==
    /\ [](\A c \in DOMAIN call :
            call[c].op = "get_historical" =>
               /\ IsPrefix(call[c].invoked, GatedFrom("get_historical", 1))
               /\ call[c].lookup = "none"
               /\ call[c].pc = "done" =>
                     IF OkCalls(c) = {}
                     THEN ~call[c].ret[1].ok /\ call[c].ret[1].val.kind = "NotFound"
                     ELSE LET i == call[c].invoked[FirstOk(c)]
                          IN call[c].ret =
                                <<Ok(AdapterHistorical(i, providers[i].name, call[c].arg, 10))>>)
    /\ [][\A c \in DOMAIN call :
            (call'[c].op = "get_historical" /\ call'[c] # call[c]) =>
               /\ cache' = cache
               /\ BeginStep(c) =>
                     /\ call'[c].results = <<>>
                     /\ IF GatedFrom("get_historical", 1) = <<>>
                        THEN call'[c].pc = "done" /\ ~call'[c].ret[1].ok
                        ELSE call'[c].pc = "await"
                             /\ call'[c].invoked = <<GatedFrom("get_historical", 1)[1]>>]_vars

\* with entries in the cache, two adapters answered a get_historical call and the
\* first one's data came back
C15_Witness ==
    \E c \in DOMAIN call :
        /\ call[c].pc = "done" /\ call[c].op = "get_historical"
        /\ call[c].outcomes = <<"Ok", "Ok">> /\ call[c].invoked = <<1, 2>>
        /\ cache # <<>>
        /\ call[c].ret[1].val.provider = "Homebrew"

\* the adapters among the configured ones that support the feature
Supporters(feature) == {i \in DOMAIN providers : feature \in providers[i].supports}

C17_EmptyComboSupportsCurrentWeather ==
    (providers = <<>> /\ cache_duration_secs = TestCacheDuration /\ fallback_enabled) =>
        (Name = "Combo" /\ SupportsFeature("CurrentWeather"))

(***************************************************************************)
(* SpecLimiter, SpecLimiterThreads: one RateLimiter called by one thread,  *)
(* and by two threads at once.  No ComboProvider call is made.             *)
(***************************************************************************)
\* (max_requests, window_seconds); <<2, 1>> is the limiter of test_rate_limiter
LimiterConfigs == {<<1, 1>>, <<TestMaxRequests, TestWindowSeconds>>, <<1, 2>>, <<2, 2>>}

InitRate(threads) ==
    LET self == Build(<<>>, TestCacheDuration, TRUE)
    IN /\ providers = self.providers
       /\ weights = self.weights
       /\ cache_duration_secs = self.cache_duration_secs
       /\ fallback_enabled = self.fallback_enabled
       /\ cache = WeatherCacheNew
       /\ now = 0
       /\ call = [c \in {} |-> IdleCall]
       /\ \E cfg \in LimiterConfigs : limiter = RateLimiterNew(cfg[1], cfg[2])
       /\ thread = [t \in threads |-> IdleThread]
       /\ auth = AuthRateLimiterNew(TestMaxRequests, TestWindowSeconds)
       /\ server = ConfigNew
       /\ InitEdge

InitLimiter == InitRate({"t1"})
InitLimiterThreads == InitRate({"t1", "t2"})

NextLimiter ==
    \/ \E t \in DOMAIN thread : CheckRateLimit(t)
    \/ \E t \in DOMAIN thread : Lock(t)
    \/ \E t \in DOMAIN thread : Prune(t)
    \/ \E t \in DOMAIN thread : Check(t)
    \/ \E t \in DOMAIN thread : Push(t)
    \/ \E t \in DOMAIN thread : Reject(t)
    \/ Tick

SpecLimiter == InitLimiter /\ [][NextLimiter]_vars
SpecLimiterThreads == InitLimiterThreads /\ [][NextLimiter]_vars

\* the number of entries of the sequence s that satisfy Test
CountIn(s, Test(_)) == Len(SelectSeq(s, Test))

\* thread t returns from check_rate_limit in this step
Returns(t) == thread[t].pc \in {"push", "reject"} /\ thread'[t].pc = "done"

\* the admitted calls that are younger than the window at the instant at
YoungAdmitted(at) ==
    CountIn(limiter.admitted, LAMBDA a : at - a < limiter.window_seconds)

\* the call returns true iff fewer than max_requests admitted calls are young
ReturnsIffSlotFree(t) ==
    thread'[t].ret <=> (YoungAdmitted(thread[t].now) < limiter.max_requests)

\* once the window has elapsed since the oldest of the last max_requests
\* admitted calls, the call is admitted
AdmitsAfterWindow(t) ==
    LET n == Len(limiter.admitted)
        oldest == limiter.admitted[n - limiter.max_requests + 1]
    IN (n >= limiter.max_requests
        /\ thread[t].now - oldest >= limiter.window_seconds) => thread'[t].ret

\* nothing is rejected before max_requests calls were admitted
RejectsOnlyWhenFull ==
    \A t \in DOMAIN thread :
        (thread[t].pc = "done" /\ ~thread[t].ret)
            => Len(limiter.admitted) >= limiter.max_requests

\* the admitted calls with from <= instant <= to
AdmittedBetween(from, to) ==
    CountIn(limiter.admitted, LAMBDA a : from <= a /\ a <= to)

\* no window [from, from + W) holds more than max_requests admitted calls
\* (instants are whole seconds, so the window ends at from + W - 1)
HalfOpenWindows ==
    \A from \in 0..MaxTime :
        AdmittedBetween(from, from + limiter.window_seconds - 1) <= limiter.max_requests

\* no window [from, from + W] holds more than max_requests admitted calls
ClosedWindows ==
    \A from \in 0..MaxTime :
        AdmittedBetween(from, from + limiter.window_seconds) <= limiter.max_requests

\* C18 (as stated): check_rate_limit returns true iff fewer than N admitted
\* calls are younger than W seconds at the time of the call; starting empty
\* it rejects only after N admissions, admits again once W seconds elapsed
\* since the oldest admitted call, and no interval of W seconds, end points
\* included, contains more than N admitted calls.
C18_SlidingWindowClosed ==
    /\ [](RejectsOnlyWhenFull /\ ClosedWindows)
    /\ [][\A t \in DOMAIN thread :
            Returns(t) => (ReturnsIffSlotFree(t) /\ AdmitsAfterWindow(t))]_vars

\* C18 (amended): the same, for every interval [t, t + W) of W seconds that
\* excludes its end: two calls exactly W seconds apart are both admitted.
C18_SlidingWindow ==
    /\ [](RejectsOnlyWhenFull /\ HalfOpenWindows)
    /\ [][\A t \in DOMAIN thread :
            Returns(t) => (ReturnsIffSlotFree(t) /\ AdmitsAfterWindow(t))]_vars

\* N calls were admitted, a later one was admitted after the window, and the
\* call that has just returned was rejected
C18_Witness ==
    /\ thread["t1"].pc = "done"
    /\ ~thread["t1"].ret
    /\ Len(limiter.admitted) > limiter.max_requests
    /\ limiter.admitted[1] < thread["t1"].now

\* the recorded sequence holds at most max_requests instants
WithinCapacity == Len(limiter.requests) <= limiter.max_requests

\* only the thread that holds the guard is between lock() and the return
CriticalSection ==
    \A t \in DOMAIN thread :
        thread[t].pc \in {"retain", "check", "push", "reject"} => limiter.mutex = t

\* two calls that were inside check_rate_limit at the same time have both
\* returned: no more of them were admitted than slots were free when the
\* later one entered
AdmittedWithinFreeSlots ==
    \A t, u \in DOMAIN thread :
        (/\ t # u
         /\ thread[t].pc = "done"
         /\ thread[u].pc = "done"
         /\ t \in thread[u].peers)
            => Cardinality({v \in {t, u} : thread[v].ret}) <= thread[u].free

\* C19: when several threads call check_rate_limit on one RateLimiter at the
\* same time, the prune-count-push steps exclude each other, the recorded
\* sequence never holds more than max_requests instants, and of the calls
\* running at the same time no more are admitted than slots were free.
C19_ConcurrentCallsAtomic ==
    /\ WithinCapacity
    /\ CriticalSection
    /\ AdmittedWithinFreeSlots

\* what the next call will count depends on the admitted calls alone
CountsAdmittedOnly ==
    Retain(limiter.requests, now, limiter.window_seconds)
        = Retain(limiter.admitted, now, limiter.window_seconds)

\* C20: a check_rate_limit call that returns false records no instant: after
\* the pruning it leaves the sequence as it is, so what later calls count,
\* and with it the moment the limiter admits again, depends on the admitted
\* calls only, however many calls were rejected.
C20_RejectionRecordsNothing ==
    /\ []CountsAdmittedOnly
    /\ [][\A t \in DOMAIN thread :
            (thread[t].pc = "reject" /\ thread'[t].pc = "done")
                => /\ ~thread'[t].ret
                   /\ limiter'.requests = limiter.requests
                   /\ limiter'.admitted = limiter.admitted]_vars

\* a call made after the first admission, inside its window, was rejected
\* and the sequence still holds the admitted instants only
C20_Witness ==
    /\ thread["t1"].pc = "done"
    /\ ~thread["t1"].ret
    /\ Len(limiter.requests) = limiter.max_requests
    /\ limiter.requests[1] < thread["t1"].now

(***************************************************************************)
(* SpecAuth: one auth::RateLimiter called by two threads for two clients   *)
(***************************************************************************)
\* the client ids of test_rate_limiter_basic
Clients == {"client1", "client2"}

\* (max_attempts, window_seconds, calling threads); two attempts per second
\* is the limiter of test_rate_limiter_window_reset, called from one thread
\* as in the test
AuthConfigs ==
    {<<1, 1, {"t1", "t2"}>>, <<1, 2, {"t1", "t2"}>>,
     <<TestMaxRequests, TestWindowSeconds, {"t1"}>>}

InitAuth ==
    LET self == Build(<<>>, TestCacheDuration, TRUE)
    IN /\ providers = self.providers
       /\ weights = self.weights
       /\ cache_duration_secs = self.cache_duration_secs
       /\ fallback_enabled = self.fallback_enabled
       /\ cache = WeatherCacheNew
       /\ now = 0
       /\ call = [c \in {} |-> IdleCall]
       /\ limiter = RateLimiterNew(TestMaxRequests, TestWindowSeconds)
       /\ \E cfg \in AuthConfigs :
             /\ auth = AuthRateLimiterNew(cfg[1], cfg[2])
             /\ thread = [t \in cfg[3] |-> AuthIdleThread]
       /\ server = ConfigNew
       /\ InitEdge

NextAuth ==
    \/ \E t \in DOMAIN thread, client_id \in Clients : AuthCheckRateLimit(t, client_id)
    \/ \E t \in DOMAIN thread : AuthLock(t)
    \/ \E t \in DOMAIN thread : AuthAdmit(t)
    \/ \E t \in DOMAIN thread : AuthReject(t)
    \/ Tick

SpecAuth == InitAuth /\ [][NextAuth]_vars

\* the sequence s is non-decreasing
Ordered(s) == \A i, j \in 1..Len(s) : i < j => s[i] <= s[j]

\* C21: the instants a rate limiter has recorded are in non-decreasing
\* order, whatever calls were made and however they interleaved: those of
\* the provider limiter, and those of every client of the auth limiter.
C21_RecordedInstantsOrdered ==
    /\ Ordered(limiter.requests)
    /\ \A c \in DOMAIN auth.attempts : Ordered(auth.attempts[c])

\* thread t returns from the auth check_rate_limit in this step
AuthReturns(t) == thread[t].pc = "locked" /\ thread'[t].pc = "done"

\* the admitted attempts of the client that lie within the window at the instant
AdmittedInWindow(client_id, instant) ==
    CountIn(AdmittedOf(client_id), LAMBDA a : instant - a < auth.window)

\* C22: the auth limiter keeps one window per client id: a call for client c
\* is admitted iff fewer than max_attempts admitted attempts of c lie within
\* the last window, whatever other clients attempted; the call leaves the
\* lists of the other clients as they are; and a client is admitted again
\* once the window has elapsed since its admitted attempts.
C22_WindowPerClient ==
    [][\A t \in DOMAIN thread :
         AuthReturns(t) =>
            LET c == thread[t].client_id
                at == thread[t].now
            IN /\ thread'[t].ret <=> (AdmittedInWindow(c, at) < auth.max_attempts)
               /\ (AdmittedInWindow(c, at) = 0 /\ auth.max_attempts > 0)
                     => thread'[t].ret
               /\ \A d \in DOMAIN auth.attempts \ {c} :
                     auth'.attempts[d] = auth.attempts[d]
               /\ \A d \in DOMAIN auth.admitted \ {c} :
                     auth'.admitted[d] = auth.admitted[d]]_vars

\* client1 has used up its window a second time, and the call that has
\* just returned admitted client2
C22_Witness ==
    \E t \in DOMAIN thread :
        /\ thread[t].pc = "done"
        /\ thread[t].ret
        /\ thread[t].client_id = "client2"
        /\ "client1" \in DOMAIN auth.attempts
        /\ Len(auth.attempts["client1"]) = auth.max_attempts
        /\ Len(auth.admitted["client1"]) > auth.max_attempts
        /\ auth.attempts["client2"] = <<now>>

(***************************************************************************)
(* SpecServer: one server Config is initialised and shut down.  The server *)
(* thread and the runtime that drives the shutdown task keep running, so   *)
(* their steps are weakly fair; the clock is not.                          *)
(***************************************************************************)
InitServer ==
    LET self == Build(<<>>, TestCacheDuration, TRUE)
    IN /\ providers = self.providers
       /\ weights = self.weights
       /\ cache_duration_secs = self.cache_duration_secs
       /\ fallback_enabled = self.fallback_enabled
       /\ cache = WeatherCacheNew
       /\ now = 0
       /\ call = [c \in {} |-> IdleCall]
       /\ limiter = RateLimiterNew(TestMaxRequests, TestWindowSeconds)
       /\ thread = [t \in {} |-> IdleThread]
       /\ auth = AuthRateLimiterNew(TestMaxRequests, TestWindowSeconds)
       /\ server = ConfigNew
       /\ InitEdge

ServerThread == ServerStart \/ ServerBindFails \/ ServerLoad \/ ServerPoll

NextServer ==
    \/ ConfigInit
    \/ ConfigInitFails
    \/ ServerStart
    \/ ServerBindFails
    \/ ServerLoad
    \/ ServerPoll
    \/ Shutdown
    \/ ShutdownWithTimeout(CustomShutdownTimeout)
    \/ ShutdownTake
    \/ ShutdownJoined
    \/ ShutdownTimedOut
    \/ Tick

SpecServer ==
    /\ InitServer
    /\ [][NextServer]_vars
    /\ WF_vars(ServerThread)
    /\ WF_vars(ShutdownTake)
    /\ WF_vars(ShutdownJoined \/ ShutdownTimedOut)

\* the server thread has terminated
Terminated == server.thread \in {"exited", "panicked"}

\* what holds whenever a shutdown call has returned
ShutdownReturned ==
    server.pc = "returned" =>
        /\ server.handle = "None"
        /\ server.shutdown_flag
        /\ server.outcome = "joined" => Terminated
        /\ server.outcome = "timed out" => now >= server.deadline

\* a shutdown call that finds no handle returns without awaiting a join
NoHandleNoWait ==
    (server.pc = "signalled" /\ server.handle = "None" /\ server'.pc # "signalled")
        => (server'.pc = "returned" /\ server'.outcome = "no handle")

\* a shutdown call on an initialised Config that finds the handle awaits the
\* join under the timeout
HandleIsJoined ==
    (server.pc = "signalled" /\ server.handle = "Some" /\ server'.pc # "signalled")
        => (server'.pc = "join" /\ server'.handle = "None")

\* C23: after shutdown (or shutdown_with_timeout) on an initialised server
\* Config the server thread sees the flag, leaves its poll loop and
\* terminates; the call returns, after the join or after the timeout, with
\* the stored handle taken; a later call finds no handle and returns
\* without waiting.
C23_ShutdownTerminates ==
    /\ [](ShutdownReturned /\ (server.thread = "exited" => server.shutdown_flag))
    /\ [][NoHandleNoWait /\ HandleIsJoined]_vars
    /\ (server.pc = "signalled") ~> (server.pc = "returned")
    /\ (server.shutdown_flag /\ server.thread \in {"load", "poll"})
          ~> (server.thread = "exited")
    /\ (server.shutdown_flag /\ server.thread = "starting") ~> Terminated

\* an earlier shutdown took the handle, the server thread has left its loop,
\* and a later shutdown call has returned without a handle
C23_Witness ==
    /\ server.pc = "returned"
    /\ server.outcome = "no handle"
    /\ server.thread = "exited"
    /\ server.handle = "None"

\* the chains of add_provider calls that built this ComboProvider
BuiltBy ==
    {adds \in SeqsUpTo(CombineAdds, MaxProviders) :
        LET self == AddAll(ComboNew, adds)
        IN self.providers = providers /\ self.weights = weights}

\* two adapters of one name were added
SameNameTwice ==
    Len(providers) = 2 /\ providers[1].name = providers[2].name

Renamed(provider) == [provider EXCEPT !.name = "Renamed"]

UnweightedAdds == <<<<AccuWeather, F(2)>>, <<OpenWeather, F(3)>>>>

\* temperature, reported optional fields
UnweightedSamples == {<<10, {"humidity"}>>, <<20, {}>>}

\* one daily and one hourly entry for the same day and hour from every adapter
UnweightedForecasts(c) ==
    {AdapterForecast(InFlight(c), InFlightName(c),
                     <<AdapterDaily(<<1>>, x[1], x[2])>>,
                     <<<<AdapterHourly(<<1>>, x[1], x[2])>>>>) : x \in UnweightedSamples}

InitUnweighted ==
    \E renamed \in SUBSET (1..Len(UnweightedAdds)), enabled \in BOOLEAN :
        LET self == Build(UnweightedAdds, 0, enabled)
        IN /\ providers = [i \in 1..Len(self.providers) |->
                             IF i \in renamed THEN Renamed(self.providers[i])
                             ELSE self.providers[i]]
           /\ weights = self.weights
           /\ cache_duration_secs = self.cache_duration_secs
           /\ fallback_enabled = self.fallback_enabled
           /\ cache = WeatherCacheNew
           /\ now = 0
           /\ call = [c \in {"c1"} |-> IdleCall]
           /\ limiter = RateLimiterNew(TestMaxRequests, TestWindowSeconds)
           /\ thread = [t \in {} |-> IdleThread]
           /\ auth = AuthRateLimiterNew(TestMaxRequests, TestWindowSeconds)
           /\ server = ConfigNew
           /\ InitEdge

NextUnweighted ==
    \/ \E c \in DOMAIN call : FirstCall(c) /\ GetCurrentWeather(c, Location1)
    \/ \E c \in DOMAIN call : FirstCall(c) /\ GetForecast(c, Location1, Days1)
    \/ \E c \in DOMAIN call : Awaiting(c, "get_current_weather")
          /\ \E data \in WeatherAnswers(c, UnweightedSamples) : AdapterOk(c, data)
    \/ \E c \in DOMAIN call : Awaiting(c, "get_forecast")
          /\ \E data \in UnweightedForecasts(c) : AdapterOk(c, data)
    \/ \E c \in DOMAIN call, kind \in WeatherErrorKinds :
          call[c].pc = "await" /\ AdapterErr(c, AdapterError(kind))

SpecUnweighted == InitUnweighted /\ [][NextUnweighted]_vars

\* the weight the claim gives a result: the entry of its name, 1 without one
ClaimedWeight(name) == IF name \in DOMAIN weights THEN weights[name].n ELSE 1

\* v is the average of value(k) over the results K of caller c, each weighted
\* with the claimed weight of its name
IsClaimedAverage(c, v, K, value(_)) ==
    IsQuotient(v,
               SumOver([k \in K |-> value(k) * ClaimedWeight(call[c].results[k][1])], K),
               SumOver([k \in K |-> ClaimedWeight(call[c].results[k][1])], K))

\* C25: in every combination (current weather, daily and hourly forecast) a
\* result whose provider name has no entry in the weight map is weighted
\* with exactly 1.0, in the numerators and in the weight totals.
C25_MissingWeightIsOne ==
    \A c \in DOMAIN call :
        LET res == call[c].results
            All == 1..Len(res)
            Humid == {k \in All : IsSome(res[k][2].humidity)}
            HumidDay == {k \in All : IsSome(res[k][2].daily[1].humidity)}
        IN /\ CombinedOk(c) =>
                LET out == call[c].ret[1].val
                IN /\ IsClaimedAverage(c, out.temperature, All,
                                       LAMBDA k : res[k][2].temperature.n)
                   /\ Humid # {} =>
                        IsClaimedAverage(c, out.humidity, Humid,
                                         LAMBDA k : res[k][2].humidity.n)
           /\ CombinedForecastOk(c) =>
                LET out == call[c].ret[1].val
                IN /\ Len(out.daily) = 1 /\ Len(out.hourly[1]) = 1
                   /\ IsClaimedAverage(c, out.daily[1].temperature_min, All,
                                       LAMBDA k : res[k][2].daily[1].temperature_min.n)
                   /\ IsClaimedAverage(c, out.daily[1].temperature_max, All,
                                       LAMBDA k : res[k][2].daily[1].temperature_max.n)
                   /\ HumidDay # {} =>
                        IsClaimedAverage(c, out.daily[1].humidity, HumidDay,
                                         LAMBDA k : res[k][2].daily[1].humidity.n)
                   /\ IsClaimedAverage(c, out.hourly[1][1].temperature, All,
                                       LAMBDA k : res[k][2].hourly[1][1].temperature.n)

\* the first result came under a name without a weight, the second under
\* OpenWeather with weight 3: hourly temperatures 10 and 20 gave 70/4
C25_Witness ==
    \E c \in DOMAIN call :
        /\ CombinedForecastOk(c)
        /\ Len(call[c].results) = 2
        /\ call[c].results[1][1] \notin DOMAIN weights
        /\ call[c].results[2][1] \in DOMAIN weights
        /\ weights[call[c].results[2][1]] = F(3)
        /\ call[c].results[1][2].hourly[1][1].temperature = F(10)
        /\ call[c].results[2][2].hourly[1][1].temperature = F(20)
        /\ call[c].ret[1].val.hourly[1][1].temperature = Fin(35, 2)
        /\ call[c].ret[1].val.daily[1].temperature_min = Fin(35, 2)

(***************************************************************************)
(* SpecCache: one provider, current weather asked for two locations, the   *)
(* clock: several cache keys in one run                                    *)
(***************************************************************************)
Location2 == <<"y">>

CacheAdds == <<<<OpenWeather, F(1)>>>>

CacheSamples == {<<10, {}>>, <<20, {"humidity"}>>}

InitCache ==
    \E seconds \in {1, 2} : InitCombo(CacheAdds, seconds, TRUE, {"c1"})

NextCache ==
    \/ \E c \in DOMAIN call, location \in {Location1, Location2} :
          GetCurrentWeather(c, location)
    \/ \E c \in DOMAIN call : Awaiting(c, "get_current_weather")
          /\ \E data \in WeatherAnswers(c, CacheSamples) : AdapterOk(c, data)
    \/ \E c \in DOMAIN call, kind \in WeatherErrorKinds :
          call[c].pc = "await" /\ AdapterErr(c, AdapterError(kind))
    \/ Tick

SpecCache == InitCache /\ [][NextCache]_vars

\* the keys whose entry this step inserted or replaced
Written == {k \in DOMAIN cache' : k \notin DOMAIN cache \/ cache'[k] # cache[k]}

\* C26: WeatherCache.get never modifies the map: a stale entry stays stored
\* and stays a miss until a set for its key replaces it; set replaces the
\* value and the timestamp of its key and leaves every other entry as it
\* is; nothing removes an entry, so the set of cached keys only grows.
C26_CacheOnlyGrows ==
    [][/\ DOMAIN cache \subseteq DOMAIN cache'
       /\ Cardinality(Written) <= 1
       /\ \A k \in Written :
            \E c \in DOMAIN call :
                /\ FanoutEndStep(c)
                /\ call'[c].cache_key = k
                /\ call'[c].ret[1].ok
                /\ cache'[k] = CacheEntry(ToValue(call'[c].op, call'[c].ret[1].val), now)
       /\ \A c \in DOMAIN call :
            (BeginStep(c) /\ Cached(call'[c].op)) => cache' = cache
       /\ \A k \in DOMAIN cache :
            (~Fresh(k) /\ cache'[k] = cache[k]) => ~Fresh(k)'
      ]_vars

\* the entry of one location went stale and is still stored while the stale
\* entry of the other location has just been replaced
C26_Witness ==
    \E c \in DOMAIN call, k \in DOMAIN cache :
        /\ call[c].pc = "done"
        /\ call[c].lookup = "stale"
        /\ call[c].ret[1].ok
        /\ k # call[c].cache_key
        /\ ~Fresh(k)
        /\ cache[call[c].cache_key].timestamp = now
        /\ cache[k].timestamp < now

(***************************************************************************)
(* SpecGate: the fan-out over adapters of partial feature support.  The    *)
(* trait leaves supports_feature to the implementation: next to the three  *)
(* adapters of the repository, one that serves current weather only.       *)
(***************************************************************************)
Station == [name |-> "Station", supports |-> {"CurrentWeather"}]

InitGate ==
    \E adds \in SeqsUpTo((AdapterKinds \cup {Station}) \X {F(1)}, MaxProviders),
       enabled \in BOOLEAN :
        Len(adds) > 0 /\ InitCombo(adds, 1, enabled, {"c1"})

SpecGate == InitGate /\ [][NextFanout]_vars

\* the feature whose support gates the fan-out of op
FeatureOf(op) ==
    CASE op = "get_forecast" -> "Forecast"
      [] op = "get_alerts" -> "Alerts"
      [] op = "get_historical" -> "HistoricalData"

\* C27: on a cache miss get_forecast, get_alerts and get_historical never invoke
\* their method on an adapter whose supports_feature(Forecast), (Alerts) or
\* (HistoricalData) is false, and such an adapter contributes no result.
C27_UnsupportedNeverInvoked ==
    \A c \in DOMAIN call :
        call[c].op \in {"get_forecast", "get_alerts", "get_historical"} =>
            LET rec == call[c]
                feature == FeatureOf(rec.op)
            IN /\ \A j \in 1..Len(rec.invoked) :
                    feature \in providers[rec.invoked[j]].supports
               /\ \A i \in rec.inflight : feature \in providers[i].supports
               /\ \A j \in 1..Len(rec.results) :
                    \E k \in 1..Len(rec.outcomes) :
                        /\ rec.outcomes[k] = "Ok"
                        /\ providers[rec.invoked[k]].name = rec.results[j][1]
                        /\ feature \in providers[rec.invoked[k]].supports

\* a missed get_alerts over an adapter without Alerts and one with Alerts has
\* returned: only the second was called
C27_Witness ==
    \E c \in DOMAIN call :
        /\ ReturnedAfterFanout(c) /\ call[c].op = "get_alerts"
        /\ Len(providers) = 2
        /\ "Alerts" \notin providers[1].supports
        /\ call[c].invoked = <<2>> /\ call[c].outcomes = <<"Ok">>
        /\ Len(call[c].results) = 1

(***************************************************************************)
(* SpecHourly: one get_forecast call over weighted providers whose         *)
(* forecasts carry hourly lists, the cache switched off                    *)
(***************************************************************************)
MaxHours == 2          \* entries in one adapter's hourly list

\* datetime strings as character codes: <<1, 0>> sorts before <<2>>
HourlySamples ==
    {AdapterHourly(<<2>>, 10, {}),
     AdapterHourly(<<2>>, 20, OptionalFields),
     AdapterHourly(<<1, 0>>, 20, {"humidity"})}

\* hourly: Option<Vec<HourlyForecast>>: None or Some(list)
HourlyAnswers(c) ==
    {AdapterForecast(InFlight(c), InFlightName(c), <<AdapterDaily(<<1>>, 10, {})>>, hourly) :
        hourly \in {<<>>} \cup {<<list>> : list \in SeqsUpTo(HourlySamples, MaxHours)}}

NextHourly ==
    \/ \E c \in DOMAIN call : FirstCall(c) /\ GetForecast(c, Location1, Days1)
    \/ \E c \in DOMAIN call : Awaiting(c, "get_forecast")
          /\ \E data \in HourlyAnswers(c) : AdapterOk(c, data)
    \/ \E c \in DOMAIN call, kind \in WeatherErrorKinds :
          call[c].pc = "await" /\ AdapterErr(c, AdapterError(kind))

SpecHourly == InitForecast /\ [][NextHourly]_vars

\* <<k, i>>: entry i of the hourly list of the k-th contributing provider
HourlyIndex(c) ==
    {<<k, i>> \in (1..Len(call[c].results)) \X (1..MaxHours) :
        /\ call[c].results[k][2].hourly # <<>>
        /\ i <= Len(call[c].results[k][2].hourly[1])}

HourlyAt(c, e) == call[c].results[e[1]][2].hourly[1][e[2]]

\* the entries of the contributing providers for one datetime
DatetimeBucket(c, datetime) == {e \in HourlyIndex(c) : HourlyAt(c, e).datetime = datetime}

\* the hourly list of the combined forecast, empty when it is None
HourlyOut(c) ==
    IF call[c].ret[1].val.hourly = <<>> THEN <<>> ELSE call[c].ret[1].val.hourly[1]

\* C28: in a combined forecast each distinct hourly datetime string yields exactly one
\* HourlyForecast, ordered ascending by datetime, whose temperature is the weighted
\* average over that datetime bucket and whose feels_like, humidity,
\* precipitation_probability, precipitation_amount, wind_speed, wind_direction and
\* icon are all None even when contributing providers reported them.
C28_HourlyTemperatureOnly ==
    \A c \in DOMAIN call :
        CombinedForecastOk(c) =>
            LET out == HourlyOut(c)
            IN /\ {out[i].datetime : i \in 1..Len(out)}
                     = {HourlyAt(c, e).datetime : e \in HourlyIndex(c)}
               /\ \A i, j \in 1..Len(out) : i < j => StrLess(out[i].datetime, out[j].datetime)
               /\ \A i \in 1..Len(out) :
                    LET B == DatetimeBucket(c, out[i].datetime)
                        W == SumOver([e \in B |-> EntryWeight(c, e)], B)
                        T == SumOver([e \in B |->
                                 HourlyAt(c, e).temperature.n * EntryWeight(c, e)], B)
                    IN /\ IsQuotient(out[i].temperature, T, W)
                       /\ out[i].feels_like = None
                       /\ out[i].humidity = None
                       /\ out[i].precipitation_probability = None
                       /\ out[i].precipitation_amount = None
                       /\ out[i].wind_speed = None
                       /\ out[i].wind_direction = None
                       /\ out[i].icon = NoString

\* the first provider (weight 2) reported the hours "2", with every optional field,
\* and "10", the second (weight 1) the hour "2": two entries, "10" first, the
\* temperature of "2" is (20 x 2 + 10 x 1) / 3 and no optional field is passed on
C28_Witness ==
    \E c \in DOMAIN call :
        /\ CombinedForecastOk(c) /\ Len(call[c].results) = 2
        /\ weights[call[c].results[1][1]] = F(2) /\ weights[call[c].results[2][1]] = F(1)
        /\ call[c].results[1][2].hourly =
              <<<<AdapterHourly(<<2>>, 20, OptionalFields),
                  AdapterHourly(<<1, 0>>, 20, {"humidity"})>>>>
        /\ call[c].results[2][2].hourly = <<<<AdapterHourly(<<2>>, 10, {})>>>>
        /\ Len(HourlyOut(c)) = 2
        /\ HourlyOut(c)[1].datetime = <<1, 0>>
        /\ HourlyOut(c)[2].datetime = <<2>>
        /\ HourlyOut(c)[2].temperature = Fin(50, 3)
        /\ HourlyOut(c)[2].humidity = None

(***************************************************************************)
(* SpecFrame: the six operations of impl WeatherProvider for ComboProvider *)
(***************************************************************************)
NextFrame ==
    \/ Next
    \/ \E c \in DOMAIN call : GetName(c)
    \/ \E c \in DOMAIN call, feature \in {"Forecast", "HistoricalData"} :
          GetSupportsFeature(c, feature)

SpecFrame == Init /\ [][NextFrame]_vars

\* C29: after construction no operation (get_current_weather, get_forecast,
\* get_alerts, get_historical, name, supports_feature) changes the provider list,
\* the weight map, cache_duration_secs or fallback_enabled; the cache map is the
\* only state of the ComboProvider these operations change.
C29_ConfigurationFrozen ==
    [][/\ providers' = providers
       /\ weights' = weights
       /\ cache_duration_secs' = cache_duration_secs
       /\ fallback_enabled' = fallback_enabled
       /\ (\E c \in DOMAIN call : BeginStep(c) /\ call'[c].op \in {"name", "supports_feature"})
             => cache' = cache
      ]_vars

\* an operation stored its answer after an adapter had failed, and
\* supports_feature was called afterwards
C29_Witness ==
    \E c \in DOMAIN call :
        /\ call[c].pc = "done" /\ call[c].op = "supports_feature"
        /\ call[c].ret = <<TRUE>>
        /\ DOMAIN cache # {}
        /\ Len(providers) = 2

(***************************************************************************)
(* The location of a combination (SpecFanout)                              *)
(***************************************************************************)
\* the index in the provider list of the first adapter that returned Ok
FirstOkProvider(c) == call[c].invoked[FirstOk(c)]

\* C30: the location of the combined Weather (and of the combined Forecast) is the
\* location reported by the first provider in insertion order that returned Ok for
\* this call; providers that failed earlier are skipped, and it is never derived
\* from a later provider.
C30_LocationOfFirstOk ==
    \A c \in DOMAIN call :
        (CombinedOk(c) \/ CombinedForecastOk(c)) =>
            LET loc == call[c].ret[1].val.location
                i == FirstOkProvider(c)
            IN /\ loc = AnswerOf(c, FirstOk(c)).location
               /\ loc.name = <<providers[i].name>>
               /\ loc.latitude = F(i)
               /\ \A j \in OkCalls(c) : i <= call[c].invoked[j]

\* the first adapter failed and the second answered: the location is the second's
C30_Witness ==
    \E c \in DOMAIN call :
        /\ CombinedOk(c)
        /\ call[c].invoked = <<1, 2>> /\ call[c].outcomes = <<"Err", "Ok">>
        /\ call[c].ret[1].val.location.latitude = F(2)

(***************************************************************************)
(* SpecUpstream: two threads run operations of one adapter whose limiter   *)
(* admits one request per second                                           *)
(***************************************************************************)
InitUpstream ==
    /\ InitLimiterThreads
    /\ limiter = RateLimiterNew(1, 1)

NextUpstream ==
    \/ \E t \in DOMAIN thread : ProviderOperation(t)
    \/ \E t \in DOMAIN thread : Lock(t)
    \/ \E t \in DOMAIN thread : Prune(t)
    \/ \E t \in DOMAIN thread : Check(t)
    \/ \E t \in DOMAIN thread : Push(t)
    \/ \E t \in DOMAIN thread : Reject(t)
    \/ \E t \in DOMAIN thread : SendRequest(t)
    \/ \E t \in DOMAIN thread : ReturnRateLimitExceeded(t)
    \/ Tick

SpecUpstream == InitUpstream /\ [][NextUpstream]_vars

\* a request goes out in this step only from a thread whose check, made in the
\* same operation, returned true; no other step sends
SentOnlyAfterTrue ==
    upstream' # upstream =>
        \E t \in DOMAIN thread :
            /\ thread[t].pc = "done" /\ thread[t].ret
            /\ thread'[t].pc = "idle"
            /\ upstream' = Append(upstream, [thread |-> t, checked |-> thread[t].now,
                                             sent |-> now])
            /\ \E k \in 1..Len(limiter.admitted) : limiter.admitted[k] = thread[t].now

\* an operation whose check returned false ends without a request
FalseSendsNothing ==
    \A t \in DOMAIN thread :
        (thread[t].pc = "done" /\ ~thread[t].ret /\ thread'[t].pc = "idle") =>
            upstream' = upstream

\* the requests sent in the window_seconds seconds that start at the instant from
SentWithin(from) ==
    CountIn(upstream, LAMBDA r : from <= r.sent /\ r.sent < from + limiter.window_seconds)

\* C31: every upstream request is preceded, within the same operation, by a
\* check_rate_limit call that returned true, and an operation whose check returns
\* false returns RateLimitExceeded without sending; hence the provider never sends
\* more than max_requests requests within any window_seconds interval.
C31_UpstreamWithinLimit ==
    /\ [][SentOnlyAfterTrue /\ FalseSendsNothing]_vars
    /\ [](\A from \in 0..MaxTime : SentWithin(from) <= limiter.max_requests)

(***************************************************************************)
(* SpecGuard: the request handler validates the requests of two clients    *)
(***************************************************************************)
\* config.apikey and the Authorization headers of the requests, as bytes: none,
\* the key, a wrong value of the key's length, a proper prefix of the key
ApiKey == <<107, 101>>
Headers == {<<>>, <<ApiKey>>, <<<<107, 102>>>>, <<<<107>>>>}

\* (max_attempts, window_seconds, handler threads): rouille runs the handler on
\* a pool of threads, the limiter serialises them; one thread here
GuardConfigs == {<<1, 1, {"t1"}>>, <<TestMaxRequests, TestWindowSeconds, {"t1"}>>}

InitGuard ==
    LET self == Build(<<>>, TestCacheDuration, TRUE)
    IN /\ providers = self.providers
       /\ weights = self.weights
       /\ cache_duration_secs = self.cache_duration_secs
       /\ fallback_enabled = self.fallback_enabled
       /\ cache = WeatherCacheNew
       /\ now = 0
       /\ call = [c \in {} |-> IdleCall]
       /\ limiter = RateLimiterNew(TestMaxRequests, TestWindowSeconds)
       /\ \E cfg \in GuardConfigs :
             /\ auth = AuthRateLimiterNew(cfg[1], cfg[2])
             /\ thread = [t \in cfg[3] |-> AuthIdleThread]
             /\ request = RequestsNew(cfg[3], Clients)
       /\ server = ConfigNew
       /\ upstream = <<>>
       /\ db = DatabaseNew

NextGuard ==
    \/ \E t \in DOMAIN thread, client_id \in Clients, header \in Headers, limited \in BOOLEAN :
          ValidateAuthHeader(t, client_id, header, limited)
    \/ \E t \in DOMAIN thread : LimiterConsulted(t)
    \/ \E t \in DOMAIN thread : AuthLock(t)
    \/ \E t \in DOMAIN thread : AuthAdmit(t)
    \/ \E t \in DOMAIN thread : AuthReject(t)
    \/ \E t \in DOMAIN thread : TooManyRequests(t)
    \/ \E t \in DOMAIN thread : HeaderCompared(t, ApiKey)
    \/ \E t \in DOMAIN thread : HeaderComparedUnlimited(t, ApiKey)
    \/ Tick

SpecGuard == InitGuard /\ [][NextGuard]_vars

\* the requests of client c that the limiter has admitted and whose header has
\* not been compared yet
AdmittedPending(c) ==
    {t \in DOMAIN thread :
        /\ request.inflight[t].pc = "limit" /\ request.inflight[t].client_id = c
        /\ thread[t].pc = "done" /\ thread[t].ret}

RetriesUsed == 3

InitDb ==
    /\ InitCombo(<<>>, TestCacheDuration, TRUE, {})

NextDb ==
    \/ \E i \in DOMAIN PoolNames : InitPool(PoolNames[i])
    \/ \E i \in DOMAIN PoolNames : InitPoolFails(PoolNames[i])
    \/ \E i \in DOMAIN PoolNames : GetPool(PoolNames[i])
    \/ \E i \in DOMAIN PoolNames, holder \in ArcHolders : DropArc(PoolNames[i], holder)
    \/ \E max_retries \in 0..RetriesUsed : GetConnectionWithRetry(PoolNames[1], max_retries)
    \/ GetConnectionOk
    \/ \E e \in ConnectionErrors : GetConnectionErr(e)
    \/ ShutdownPools
    \/ \E i \in DOMAIN PoolNames : ShutdownPool(i)

SpecDb == InitDb /\ [][NextDb]_vars

\* C33: get_connection_with_retry(max_retries) makes at most max_retries attempts,
\* returns the client of the first successful attempt without any further attempt,
\* waits only between attempts and not after the last one, and after max_retries
\* failed attempts ends with the error of the last attempt; with max_retries = 0 it
\* makes no attempt and returns an error.
C33_RetryBounded ==
    LET r == db.retry
        n == Len(r.history)
    IN /\ n <= r.max_retries
       /\ \A i \in 1..(n - 1) : r.history[i] # "Ok"
       /\ r.pc = "attempt" => Len(r.slept) = n
       /\ r.pc = "returned" =>
             /\ Len(r.slept) = (IF n = 0 THEN 0 ELSE n - 1)
             /\ IF n > 0 /\ r.history[n] = "Ok"
                THEN r.ret = <<Ok([attempt |-> n])>>
                ELSE /\ n = r.max_retries
                     /\ ~r.ret[1].ok
                     /\ n > 0 => r.ret[1].val = r.history[n]

\* three attempts failed, two waits, the error of the third is returned
C33_Witness ==
    /\ db.retry.pc = "returned"
    /\ db.retry.max_retries = 3
    /\ db.retry.history = <<"Connection health check failed",
                            "Failed to get connection from pool",
                            "Connection health check timed out">>
    /\ Len(db.retry.slept) = 2
    /\ db.retry.ret = <<Err("Connection health check timed out")>>

\* C34: after shutdown_pools returns, close() has been called on the homebrew pool
\* if init_homebrew_pool succeeded earlier and on the combo pool if init_combo_pool
\* succeeded earlier.
C34_InitialisedPoolsClosed ==
    db.main = "returned" =>
        \A name \in DOMAIN db.pools :
            db.pools[name].cell = "Some" => db.pools[name].closed

(***************************************************************************)
(* Failed aggregations and the cache (Spec)                                *)
(***************************************************************************)
\* C35: a get_current_weather or get_forecast call that returns NotFound leaves the
\* cache exactly as it was before the call: no entry is created for its key and an
\* existing (stale) entry keeps its value and timestamp, so the next call for that
\* key fans out again.
C35_NotFoundLeavesCache ==
    [][\A c \in DOMAIN call :
          call'[c].op \in {"get_current_weather", "get_forecast"} =>
              /\ call'[c].pc = "await" => cache' = cache
              /\ (FanoutEndStep(c) /\ ~call'[c].ret[1].ok) =>
                    /\ call'[c].ret[1].val.kind = "NotFound"
                    /\ cache' = cache
              /\ (/\ BeginStep(c)
                  /\ call[c].pc = "done" /\ ~call[c].ret[1].ok
                  /\ call'[c].cache_key = call[c].cache_key) =>
                    call'[c].lookup # "hit"]_vars

\* a call missed a stale entry, every adapter failed, and the stale entry is still
\* there with its old timestamp
C35_Witness ==
    \E c \in DOMAIN call :
        /\ call[c].pc = "done" /\ call[c].lookup = "stale"
        /\ call[c].op \in {"get_current_weather", "get_forecast"}
        /\ call[c].invoked # <<>>
        /\ ~call[c].ret[1].ok /\ call[c].ret[1].val.kind = "NotFound"
        /\ call[c].cache_key \in DOMAIN cache
        /\ cache[call[c].cache_key].timestamp < now

\* every adapter the call of caller c invoked has failed (after the step)
AllFailed(c) ==
    /\ call'[c].invoked # <<>>
    /\ \A j \in 1..Len(call'[c].outcomes) : call'[c].outcomes[j] # "Ok"

\* C36: get_alerts stores its merged list in the cache on every cache miss, including
\* the empty list produced when every Alerts-capable adapter failed; a following
\* get_alerts for the same location within the cache duration returns that cached
\* list without invoking any adapter, even if the adapters have recovered.
C36_AlertsAlwaysStored ==
    [][\A c \in DOMAIN call :
          call'[c].op = "get_alerts" =>
              LET key == call'[c].cache_key
              IN /\ FanoutEndStep(c) =>
                       /\ call'[c].ret[1].ok
                       /\ AllFailed(c) => call'[c].ret[1].val = <<>>
                       /\ key \in DOMAIN cache'
                       /\ cache'[key] = CacheEntry(ToValueAlerts(call'[c].ret[1].val), now)
                 /\ (BeginStep(c) /\ Fresh(key)) =>
                       /\ call'[c].pc = "done" /\ call'[c].invoked = <<>>
                       /\ call'[c].ret[1].ok
                       /\ ToValueAlerts(call'[c].ret[1].val) = cache[key].value
                       /\ cache' = cache]_vars

\* every Alerts-capable adapter failed, and the empty list is stored under the key of
\* the call at the time of the call
C36_Witness ==
    \E c \in DOMAIN call :
        /\ call[c].pc = "done" /\ call[c].op = "get_alerts"
        /\ call[c].invoked # <<>>
        /\ \A j \in 1..Len(call[c].outcomes) : call[c].outcomes[j] # "Ok"
        /\ call[c].ret = <<Ok(<<>>)>>
        /\ call[c].cache_key \in DOMAIN cache
        /\ cache[call[c].cache_key].value = <<>>
        /\ Fresh(call[c].cache_key)

(***************************************************************************)
(* SpecKeys: one provider that supports every feature, the three cached    *)
(* operations asked for locations with and without ':' and for two days    *)
(* values; entries stay fresh for the whole run                            *)
(***************************************************************************)
\* "x" and "x:1": "forecast:x:1" is the key of ("x", 1) and a prefix of the keys of "x:1"
KeyLocations == {<<"x">>, <<"x", ":", "1">>}

KeyDays == {1, 2}

\* the calls of the cached operations: <<operation, location, arg>>
KeyCalls ==
    ({"get_current_weather", "get_alerts"} \X KeyLocations \X {<<>>})
        \cup ({"get_forecast"} \X KeyLocations \X {<<d>> : d \in KeyDays})

InitKeys == InitCombo(<<<<OpenWeather, F(1)>>>>, 1, TRUE, {"c1"})

NextKeys ==
    \/ \E c \in DOMAIN call, location \in KeyLocations : GetCurrentWeather(c, location)
    \/ \E c \in DOMAIN call, location \in KeyLocations, days \in KeyDays :
          GetForecast(c, location, days)
    \/ \E c \in DOMAIN call, location \in KeyLocations : GetAlerts(c, location)
    \/ \E c \in DOMAIN call : Awaiting(c, "get_current_weather")
          /\ \E data \in WeatherAnswers(c, CacheSamples) : AdapterOk(c, data)
    \/ \E c \in DOMAIN call : Awaiting(c, "get_forecast")
          /\ AdapterOk(c, AdapterForecast(InFlight(c), InFlightName(c),
                                          <<AdapterDaily(<<1>>, 10, {})>>, <<>>))
    \/ \E c \in DOMAIN call : Awaiting(c, "get_alerts")
          /\ \E data \in AlertAnswers(c) : AdapterOk(c, data)
    \/ \E c \in DOMAIN call, kind \in WeatherErrorKinds :
          call[c].pc = "await" /\ AdapterErr(c, AdapterError(kind))

SpecKeys == InitKeys /\ [][NextKeys]_vars

\* the operation and the arguments of the call caller c is in after the step
CallAfter(c) == <<call'[c].op, call'[c].location, call'[c].arg>>

\* the cache keys of the calls that differ from x in operation, location or days
OtherKeys(x) == {CacheKey(y[1], y[2], y[3]) : y \in KeyCalls \ {x}}

\* C37: cache entries are separated by operation and arguments: a value stored by
\* get_current_weather(loc), get_forecast(loc, days) or get_alerts(loc) is only ever
\* returned by the same operation called with the same location (and days), for
\* all location strings including ones that contain ':'; a cached entry of one
\* operation never causes another operation, location or days value to skip its
\* fan-out.  Stated on the steps: a call writes no entry that a different call
\* looks up, and the entry a call hits is one no different call writes.
C37_KeysSeparated ==
    [][\A c \in DOMAIN call :
          /\ FanoutEndStep(c) =>
                /\ Written \subseteq {call'[c].cache_key}
                /\ Written \cap OtherKeys(CallAfter(c)) = {}
          /\ (BeginStep(c) /\ call'[c].lookup = "hit") =>
                /\ call'[c].cache_key \in DOMAIN cache
                /\ call'[c].cache_key \notin OtherKeys(CallAfter(c))
                /\ call'[c].ret = <<FromValue(call'[c].op, cache[call'[c].cache_key].value)>>
          /\ (BeginStep(c) /\ call'[c].cache_key \notin DOMAIN cache) =>
                call'[c].lookup = "absent"]_vars

\* get_forecast("x", 1) fans out although the entries of get_current_weather("x"),
\* get_alerts("x"), get_forecast("x", 2) and get_forecast("x:1", 1) are all cached
C37_Witness ==
    \E c \in DOMAIN call :
        /\ call[c].op = "get_forecast" /\ call[c].location = <<"x">> /\ call[c].arg = <<1>>
        /\ call[c].pc = "await" /\ call[c].lookup = "absent"
        /\ {CacheKey("get_current_weather", <<"x">>, <<>>),
            CacheKey("get_alerts", <<"x">>, <<>>),
            CacheKey("get_forecast", <<"x">>, <<2>>),
            CacheKey("get_forecast", <<"x", ":", "1">>, <<1>>)} \subseteq DOMAIN cache

(***************************************************************************)
(* SpecOverlap: one provider, two callers asking for the current weather   *)
(* of one location, the clock: calls that overlap                          *)
(***************************************************************************)
InitOverlap ==
    \E seconds \in {0, 2} : InitCombo(CacheAdds, seconds, TRUE, Callers)

NextOverlap ==
    \/ \E c \in DOMAIN call : GetCurrentWeather(c, Location1)
    \/ \E c \in DOMAIN call : Awaiting(c, "get_current_weather")
          /\ \E data \in WeatherAnswers(c, CacheSamples) : AdapterOk(c, data)
    \/ \E c \in DOMAIN call, kind \in WeatherErrorKinds :
          call[c].pc = "await" /\ AdapterErr(c, AdapterError(kind))
    \/ Tick

SpecOverlap == InitOverlap /\ [][NextOverlap]_vars

\* while caller c is suspended inside an adapter, caller d can start a call, which
\* begins with the cache read
ReadNotBlockedBy(c, d) ==
    call[d].pc \in {"idle", "done"} => ENABLED GetCurrentWeather(d, Location1)

\* caller d starts a call for the key caller c is fanning out for, and no fresh
\* entry is stored under it
OverlappingMiss(c, d) ==
    /\ BeginStep(d) /\ call[c].pc = "await"
    /\ call'[d].cache_key = call[c].cache_key
    /\ ~Fresh(call[c].cache_key)

C39_FieldNoneIffUnreported ==
    \A c \in DOMAIN call :
        CombinedOk(c) =>
            /\ \A field \in OptionalFields :
                  (call[c].ret[1].val[field] = None) <=> (Reporters(c, field) = {})
            /\ TotalWeight(weights, call[c].results).n # 0

====
